---- MODULE Spec2Model ----
(***************************************************************************)
(* Verification model of the AdAware-AI backend: the scoring formulas,     *)
(* the rule engine, the final-label thresholds of run_analysis_pipeline,   *)
(* the opinion (LLM) merge and the /analyze_hover endpoint.                *)
(*                                                                         *)
(* Numbers: legitimacy / credibility values the scoring code produces are  *)
(* whole numbers (50.0, 90.0, -20 ...) and are kept as integers.           *)
(* Confidence, OCR quality, similarity and risk_score are kept in          *)
(* hundredths (0.15 is 15).                                                *)
(***************************************************************************)
EXTENDS Integers, Sequences, FiniteSets, TLC

VARIABLES
    legit_in,     \* arguments of compute_legitimacy_score except catalog_trust
    legit_out,    \* catalog_trust -> score returned for legit_in (NoNum before the call)
    conf_in,      \* arguments of compute_model_confidence
    conf_out,     \* its return value (NoNum before the call)
    payload,      \* the HoverPayload of the evaluation
    env,          \* what the collaborators (image load, OCR, vision, NLP, similarity) return for it,
                  \* and which of them fails during the evaluation
    pipe_pc,      \* where run_analysis_pipeline is: "idle", "start", "llm", "done"
    request_id,   \* number of the evaluation (stands for the uuid)
    loc,          \* locals of run_analysis_pipeline after step 10
    result,       \* the AnalysisResult returned, NoResult before
    CACHE,        \* pipeline.CACHE: cache key -> stored result
    history,      \* records written by storage.save_analysis, in order
    hover_payload,  \* main.py: the HoverPayload posted to /analyze_hover
    hover_fails,    \* main.py: whether an unguarded step of the analysis raises
    hover_pc,       \* main.py: where analyze_hover is
    hover_exc,      \* main.py: the exception in flight, NoExc if none
    hover_response, \* main.py: the HTTP response, NoResponse before
    hover_cache,    \* main.py: CACHE, the set of cached keys
    merge_classic,  \* classifier.py: the report as build_full_report returned it
    merge_report,   \* llm.py: the report dict the caller passed in
    merge_reply,    \* llm.py: how the opinion call ends, and the parsed reply
    merge_enhanced, \* llm.py: the copy maybe_enhance_with_llm returns
    merge_profile,  \* classifier.py: get_effective_risk_profile of the copy
    merge_profile2, \* classifier.py: the profile of the profile merged again
    merge_pc,       \* where the enhancement is
    ev_text,        \* the text handed to the rule engine and the evidence locators (NoStr is None)
    ev_keywords,    \* the keyword table handed to _locate_spans
    ev_phrases,     \* nlp_res["strong_phrases"] handed to extract_evidence
    ev_done,        \* which of the four functions have been applied
    ev_rules,       \* evaluate_rules(ev_text)
    ev_spans,       \* how extract_evidence_spans(ev_text) ended
    ev_located,     \* _locate_spans(ev_text.lower(), ev_keywords, "risky_phrase")
    ev_evidence,    \* the risky_phrases of extract_evidence(nlp_res, ev_text)
    tasks           \* concurrent run_analysis_pipeline coroutines: pc, request_id, locals, result

legitVars == <<legit_in, legit_out>>
confVars == <<conf_in, conf_out>>
pipeVars == <<payload, env, pipe_pc, request_id, loc, result, CACHE, history>>
hoverVars == <<hover_payload, hover_fails, hover_pc, hover_exc, hover_response, hover_cache>>
mergeVars == <<merge_classic, merge_report, merge_reply, merge_enhanced, merge_profile, merge_profile2, merge_pc>>
evVars == <<ev_text, ev_keywords, ev_phrases, ev_done, ev_rules, ev_spans, ev_located, ev_evidence>>
vars == <<legitVars, confVars, pipeVars, hoverVars, mergeVars, evVars, tasks>>

\* the variables an action of one component leaves alone
notLegit == <<confVars, pipeVars, hoverVars, mergeVars, evVars, tasks>>
notConf == <<legitVars, pipeVars, hoverVars, mergeVars, evVars, tasks>>
notPipe == <<legitVars, confVars, hoverVars, mergeVars, evVars, tasks>>
notHover == <<legitVars, confVars, pipeVars, mergeVars, evVars, tasks>>
notMerge == <<legitVars, confVars, pipeVars, hoverVars, evVars, tasks>>
notEvidence == <<legitVars, confVars, pipeVars, hoverVars, mergeVars, tasks>>
notOverlap == <<legitVars, confVars, hoverVars, mergeVars, evVars, pipe_pc, request_id, loc, result>>

\* Python's None where the other values are character sequences
NoStr == <<"<None>">>

\* nothing handed to the text functions yet, and no concurrent coroutine
NoSpans == [raised |-> FALSE, spans |-> <<>>, subcats |-> {}]
EvidenceIdle ==
    /\ ev_text = <<>>
    /\ ev_keywords = <<>>
    /\ ev_phrases = <<>>
    /\ ev_done = {}
    /\ ev_rules = <<>>
    /\ ev_spans = NoSpans
    /\ ev_located = <<>>
    /\ ev_evidence = <<>>
OverlapIdle == tasks = <<>>

\* Python's None where the other values are strings
None == "None"
\* an optional number: <<>> is None (or not computed yet), <<n>> is the number n
NoNum == <<>>
Num(n) == <<n>>

Min(a, b) == IF a < b THEN a ELSE b
Max(a, b) == IF a > b THEN a ELSE b

\* F applied to the value of e, and F applied to the values of a and b (the
\* value is computed once, as an assignment to a local does)
Apply1(F(_), e) == CHOOSE r \in {F(x) : x \in {e}} : TRUE
Apply2(F(_, _), a, b) == CHOOSE r \in {F(x, y) : x \in {a}, y \in {b}} : TRUE

(***************************************************************************)
(* Bounds                                                                  *)
(***************************************************************************)
\* largest urgency_count drawn (the code's thresholds are 2 and 5)
MaxUrgency == 7
\* number of evaluations of the same payload run one after the other
MaxRequests == 2

(***************************************************************************)
(* services/classifier.py : compute_model_confidence                       *)
(***************************************************************************)
\* min(0.95, max(0.15, score))
ClampConfidenceNoFloor(score) == Min(95, score)
ClampConfidence(score) == Min(95, Max(15, score))

compute_model_confidence(vision_success, ocr_quality_score, catalog_match, image_text_sim) ==
    LET baseline == IF ocr_quality_score > 0 \/ vision_success THEN 30 ELSE 0
        catalog == IF catalog_match THEN 35 ELSE 0
        ocr == IF ocr_quality_score > 80 THEN 15
               ELSE IF ocr_quality_score > 50 THEN 10 ELSE 0
        simb == IF image_text_sim # NoNum
                THEN (IF image_text_sim[1] > 50 THEN 15
                      ELSE IF image_text_sim[1] > 20 THEN 10 ELSE 0)
                ELSE (IF catalog_match THEN 10 ELSE 0)
    IN ClampConfidence(baseline + catalog + ocr + simb)

(***************************************************************************)
(* services/classifier.py : compute_legitimacy_score                       *)
(***************************************************************************)
ScamLabels == {"scam_like", "risky_promo", "promotion", "generic"}
CatalogTrusts == {"high", "medium", "low", None}
DomainTrusts == {"trusted", "neutral", "suspicious"}

\* max(0.0, min(100.0, score))
ClampLegitimacyNone(score) == score
ClampLegitimacy(score) == Max(0, Min(100, score))

\* step 2: the catalog signal replaces the neutral base of 50
CatalogBaseMediumLow(catalog_trust) ==
    IF catalog_trust = "high" THEN 90
    ELSE IF catalog_trust = "medium" THEN 20
    ELSE IF catalog_trust = "low" THEN 30
    ELSE 50
CatalogBase(catalog_trust) ==
    IF catalog_trust = "high" THEN 90
    ELSE IF catalog_trust = "medium" THEN 75
    ELSE IF catalog_trust = "low" THEN 30
    ELSE 50

\* step 3: the label acts only without a catalog trust or with a medium one
LabelImpact(score, scam_label, catalog_trust) ==
    IF catalog_trust = None \/ catalog_trust = "medium"
    THEN (IF scam_label = "scam_like" THEN Min(score, 30) - 20
          ELSE IF scam_label = "risky_promo" THEN Min(score, 60) - 10
          ELSE IF scam_label = "promotion" THEN score + 5
          ELSE score)
    ELSE score

\* step 4: the penalty of a suspicious domain depends on the catalog trust
DomainPenalty(catalog_trust) ==
    IF catalog_trust = "high" THEN 0
    ELSE IF catalog_trust = "medium" THEN 10
    ELSE 40

DomainImpact(score, domain_trust, catalog_trust) ==
    IF domain_trust = "suspicious" THEN score - DomainPenalty(catalog_trust)
    ELSE IF domain_trust = "trusted" THEN score + 10
    ELSE score

\* step 5: cumulative urgency penalties
UrgencyImpactFromTwo(score, urgency_count) ==
    score - (IF urgency_count >= 2 THEN 10 ELSE 0)
          - (IF urgency_count > 5 THEN 15 ELSE 0)
UrgencyImpact(score, urgency_count) ==
    score - (IF urgency_count > 2 THEN 10 ELSE 0)
          - (IF urgency_count > 5 THEN 15 ELSE 0)

compute_legitimacy_score(scam_label, catalog_trust, domain_trust, sentiment_score, urgency_count) ==
    ClampLegitimacy(
        UrgencyImpact(
            DomainImpact(
                LabelImpact(CatalogBase(catalog_trust), scam_label, catalog_trust),
                domain_trust, catalog_trust),
            urgency_count))

\* the scoring variables while another specification runs
LegitIdle ==
    /\ legit_in = [scam_label |-> "generic", domain_trust |-> "neutral",
                   sentiment_score |-> 0, urgency_count |-> 0]
    /\ legit_out = [ct \in CatalogTrusts |-> NoNum]

ConfIdle ==
    /\ conf_in = [vision_success |-> FALSE, ocr_quality_score |-> 0,
                  catalog_match |-> FALSE, image_text_sim |-> NoNum]
    /\ conf_out = NoNum

(***************************************************************************)
(* Strings.  A Python string the code searches, lower-cases, trims or      *)
(* slices is a sequence of one-character strings, so that "in", find,      *)
(* lower and strip are computed character by character.  Values the code   *)
(* only compares or passes on (labels, flags, rule ids) are TLA+ strings.  *)
(***************************************************************************)
UpperChars == <<"A", "B", "C", "D", "E", "F", "G", "H", "I", "J", "K", "L", "M", "N", "O", "P", "Q", "R", "S", "T", "U", "V", "W", "X", "Y", "Z">>
LowerChars == <<"a", "b", "c", "d", "e", "f", "g", "h", "i", "j", "k", "l", "m", "n", "o", "p", "q", "r", "s", "t", "u", "v", "w", "x", "y", "z">>
DigitChars == <<"0", "1", "2", "3", "4", "5", "6", "7", "8", "9">>

InSeq(c, s) == \E i \in 1..Len(s) : s[i] = c
IsDigit(c) == InSeq(c, DigitChars)
IsSpace(c) == c = " "
\* a regex word character \w
IsWord(c) == InSeq(c, UpperChars) \/ InSeq(c, LowerChars) \/ IsDigit(c) \/ c = "_"

\* upper-case letter -> its lower-case letter
LowerOf ==
    [c \in {UpperChars[i] : i \in 1..Len(UpperChars)} |->
        LowerChars[CHOOSE i \in 1..Len(UpperChars) : UpperChars[i] = c]]

LowerCharIdentity(c) == c
LowerChar(c) == IF c \in DOMAIN LowerOf THEN LowerOf[c] ELSE c

\* str.lower()
lower(s) == Apply1(LAMBDA x : [i \in 1..Len(x) |-> LowerChar(x[i])], s)

\* k in t
\* k occurs in t at the 0-based offset i
MatchAt(t, k, i) == i + Len(k) <= Len(t) /\ \A j \in 1..Len(k) : t[i + j] = k[j]

\* k in t
Contains(k, t) ==
    \E kv \in {k} : \E tv \in {t} : \E i \in 0..(Len(tv) - Len(kv)) : MatchAt(tv, kv, i)

\* any(k in t for k in ks)
ContainsAny(ks, t) == \E tv \in {t} : \E n \in 1..Len(ks) : Contains(ks[n], tv)

StartsWith(s, p) == \E sv \in {s} : MatchAt(sv, p, 0)
EndsWith(s, p) == \E sv \in {s} : Len(sv) >= Len(p) /\ MatchAt(sv, p, Len(sv) - Len(p))

\* t.find(kw, start): the 0-based offset of the first occurrence at or after
\* start, or -1
MinOr(hits, default) == IF hits = {} THEN default ELSE CHOOSE i \in hits : \A j \in hits : i <= j

Find(t, kw, start) ==
    Apply2(LAMBDA tv, kv : Apply1(LAMBDA hits : MinOr(hits, -1),
                                  {i \in start..(Len(tv) - Len(kv)) : MatchAt(tv, kv, i)}),
           t, kw)

\* str.strip(): drop leading and trailing whitespace
MaxOr(hits, default) == IF hits = {} THEN default ELSE CHOOSE i \in hits : \A j \in hits : i >= j

strip_left_only(s) ==
    Apply1(LAMBDA sv : Apply1(LAMBDA solid : SubSeq(sv, MinOr(solid, 1), Len(sv)),
                              {i \in 1..Len(sv) : ~IsSpace(sv[i])}),
           s)
strip(s) ==
    Apply1(LAMBDA sv : Apply1(LAMBDA solid : SubSeq(sv, MinOr(solid, 1), MaxOr(solid, 0)),
                              {i \in 1..Len(sv) : ~IsSpace(sv[i])}),
           s)

\* " ".join(parts)
RECURSIVE JoinFrom(_, _)
JoinFrom(parts, n) ==
    IF n > Len(parts) THEN <<>>
    ELSE IF n = Len(parts) THEN parts[n]
    ELSE parts[n] \o <<" ">> \o JoinFrom(parts, n + 1)
JoinSpace(parts) == Apply1(LAMBDA ps : JoinFrom(ps, 1), parts)

\* filter(None, parts): drop the empty strings
RECURSIVE FilterFrom(_, _)
FilterFrom(parts, n) ==
    IF n > Len(parts) THEN <<>>
    ELSE IF parts[n] = <<>> THEN FilterFrom(parts, n + 1)
    ELSE <<parts[n]>> \o FilterFrom(parts, n + 1)
FilterNonEmpty(parts) == Apply1(LAMBDA ps : FilterFrom(ps, 1), parts)

SeqToSet(s) == {s[i] : i \in 1..Len(s)}

(***************************************************************************)
(* services/classifier.py : keyword tables, _locate_spans,                 *)
(* predict_scam_label, locate_health_advisories                            *)
(***************************************************************************)
SCAM_KEYWORDS == <<
    <<"w", "i", "n", " ", "c", "a", "s", "h">>, <<"w", "i", "n", "n", "e", "r">>, <<"c", "o", "n", "g", "r", "a", "t", "u", "l", "a", "t", "i", "o", "n", "s">>, <<"e", "a", "r", "n", " ", "m", "o", "n", "e", "y", " ", "f", "a", "s", "t">>, <<"g", "e", "t", " ", "r", "i", "c", "h", " ", "q", "u", "i", "c", "k">>,
    <<"d", "o", "u", "b", "l", "e", " ", "y", "o", "u", "r", " ", "m", "o", "n", "e", "y">>, <<"c", "r", "y", "p", "t", "o", " ", "s", "c", "h", "e", "m", "e">>, <<"g", "u", "a", "r", "a", "n", "t", "e", "e", "d", " ", "r", "e", "t", "u", "r", "n", "s">>,
    <<"l", "o", "t", "t", "e", "r", "y">>, <<"j", "a", "c", "k", "p", "o", "t">>, <<"f", "r", "e", "e", " ", "i", "p", "h", "o", "n", "e">>, <<"f", "r", "e", "e", " ", "p", "h", "o", "n", "e">>,
    <<"r", "i", "s", "k", " ", "f", "r", "e", "e">>, <<"n", "o", " ", "r", "i", "s", "k">>, <<"i", "n", "v", "e", "s", "t", "m", "e", "n", "t", " ", "o", "p", "p", "o", "r", "t", "u", "n", "i", "t", "y">> >>

HEALTH_KEYWORDS == <<
    <<"c", "a", "f", "f", "e", "i", "n", "e">>, <<"e", "n", "e", "r", "g", "y", " ", "d", "r", "i", "n", "k">>, <<"s", "u", "p", "p", "l", "e", "m", "e", "n", "t">>, <<"w", "e", "i", "g", "h", "t", " ", "l", "o", "s", "s">>, <<"d", "i", "e", "t", " ", "p", "i", "l", "l">>,
    <<"c", "u", "r", "e">>, <<"r", "e", "m", "e", "d", "y">>, <<"d", "e", "t", "o", "x">>, <<"f", "a", "t", " ", "b", "u", "r", "n", "e", "r">>, <<"t", "e", "s", "t", "o", "s", "t", "e", "r", "o", "n", "e">>,
    <<"n", "o", "t", " ", "f", "o", "r", " ", "c", "h", "i", "l", "d", "r", "e", "n">>, <<"p", "r", "e", "g", "n", "a", "n", "t">>, <<"c", "o", "n", "s", "u", "l", "t", " ", "a", " ", "d", "o", "c", "t", "o", "r">> >>

PROMO_KEYWORDS == <<
    <<"s", "a", "l", "e">>, <<"d", "i", "s", "c", "o", "u", "n", "t">>, <<"%", " ", "o", "f", "f">>, <<"o", "f", "f", "e", "r">>, <<"d", "e", "a", "l">>, <<"l", "i", "m", "i", "t", "e", "d", " ", "t", "i", "m", "e">>,
    <<"b", "u", "y", " ", "n", "o", "w">>, <<"s", "h", "o", "p", " ", "n", "o", "w">>, <<"o", "r", "d", "e", "r", " ", "n", "o", "w">>, <<"f", "l", "a", "s", "h", " ", "s", "a", "l", "e">> >>

\* the spans of one keyword: repeated find, each search starting past the
\* previous match
RECURSIVE LocateKeyword(_, _, _, _, _), LocateKeywordStepOne(_, _, _, _, _)
LocateKeywordStepOne(text_lower, kw, start, kind, category) ==
    Apply1(LAMBDA idx :
               IF idx = -1 THEN <<>>
               ELSE <<[kind |-> kind, text |-> kw, start |-> idx, end |-> idx + Len(kw),
                       category |-> category]>>
                    \o LocateKeywordStepOne(text_lower, kw, idx + 1, kind, category),
           Find(text_lower, kw, start))
LocateKeyword(text_lower, kw, start, kind, category) ==
    Apply1(LAMBDA idx :
               IF idx = -1 THEN <<>>
               ELSE <<[kind |-> kind, text |-> kw, start |-> idx, end |-> idx + Len(kw),
                       category |-> category]>>
                    \o LocateKeyword(text_lower, kw, idx + Len(kw), kind, category),
           Find(text_lower, kw, start))

RECURSIVE LocateFrom(_, _, _, _, _)
LocateFrom(text_lower, keywords, n, kind, category) ==
    IF n > Len(keywords) THEN <<>>
    ELSE LocateKeyword(text_lower, keywords[n], 0, kind, category)
         \o LocateFrom(text_lower, keywords, n + 1, kind, category)

\* _locate_spans(text_lower, keywords, kind, category_override); category is
\* the override, or "urgency" for risky_phrase and "other" otherwise
locate_spans(text_lower, keywords, kind, category_override) ==
    Apply1(LAMBDA t :
               IF t = <<>> \/ t = NoStr THEN <<>>
               ELSE LocateFrom(t, keywords, 1, kind,
                               IF category_override # None THEN category_override
                               ELSE IF kind = "risky_phrase" THEN "urgency" ELSE "other"),
           text_lower)

\* re.search(r"\b\d{2,}\s*% off\b", t): at a word boundary, two or more
\* digits, any whitespace, the literal "% off", and a word boundary
RegexPercentOff(t) ==
    \E k \in 0..Len(t) :
        /\ MatchAt(t, <<"%", " ", "o", "f", "f">>, k)
        /\ k + 5 = Len(t) \/ ~IsWord(t[k + 6])
        /\ \E j \in 2..k :
            /\ \A w \in (j + 1)..k : IsSpace(t[w])
            /\ \E i \in 1..(j - 1) :
                /\ i = 1 \/ ~IsWord(t[i - 1])
                /\ \A d \in i..j : IsDigit(t[d])

\* the label of predict_scam_label on the lower-cased text t (its second
\* component, a fixed confidence per label, is discarded by the pipeline)
ScamLabelPromoFirst(t) ==
    IF ContainsAny(PROMO_KEYWORDS, t) THEN "promotion"
    ELSE IF ContainsAny(SCAM_KEYWORDS, t) THEN "scam_like"
    ELSE "generic"
ScamLabelOfLower(t) ==
    IF ContainsAny(SCAM_KEYWORDS, t) THEN "scam_like"
    ELSE IF (IF Contains(<<"1", "0", "0", "%", " ", "f", "r", "e", "e">>, t) \/ Contains(<<"f", "r", "e", "e", " ", "m", "o", "n", "e", "y">>, t) THEN 1 ELSE 0)
            + (IF RegexPercentOff(t)
                  /\ (Contains(<<"9", "0", "%">>, t) \/ Contains(<<"9", "5", "%">>, t) \/ Contains(<<"1", "0", "0", "%">>, t))
               THEN 1 ELSE 0) >= 2
    THEN "risky_promo"
    ELSE IF ContainsAny(PROMO_KEYWORDS, t) THEN "promotion"
    ELSE "generic"

predict_scam_label(text) ==
    Apply1(LAMBDA tv : IF tv = <<>> THEN "generic" ELSE Apply1(ScamLabelOfLower, lower(tv)), text)

\* locate_health_advisories returns list(set(advisories)): the order of that
\* list is whatever the set iteration gives, so the model keeps the set
AdvisoriesOfLower(t) ==
    (IF Contains(<<"c", "a", "f", "f", "e", "i", "n", "e">>, t) \/ Contains(<<"e", "n", "e", "r", "g", "y">>, t)
     THEN (IF Contains(<<"h", "i", "g", "h", " ", "c", "a", "f", "f", "e", "i", "n", "e">>, t) THEN {"High Caffeine Content"}
           ELSE IF Contains(<<"e", "n", "e", "r", "g", "y", " ", "d", "r", "i", "n", "k">>, t) THEN {"Health Advisory: Energy Drink"}
           ELSE {})
     ELSE {})
    \cup (IF Contains(<<"s", "u", "p", "p", "l", "e", "m", "e", "n", "t">>, t) \/ Contains(<<"d", "i", "e", "t">>, t) \/ Contains(<<"w", "e", "i", "g", "h", "t", " ", "l", "o", "s", "s">>, t)
          THEN {"Dietary Supplement Warning"} ELSE {})
    \cup (IF Contains(<<"c", "r", "y", "p", "t", "o">>, t) \/ Contains(<<"b", "i", "t", "c", "o", "i", "n">>, t)
          THEN {"Financial Risk Advisory"} ELSE {})

locate_health_advisories(text) ==
    Apply1(LAMBDA tv : IF tv = <<>> THEN {} ELSE Apply1(AdvisoriesOfLower, lower(tv)), text)

(***************************************************************************)
(* services/policy_rules.py : evaluate_rules                               *)
(***************************************************************************)
fomo_phrases == << <<"l", "i", "m", "i", "t", "e", "d", " ", "t", "i", "m", "e">>, <<"o", "n", "l", "y", " ", "t", "o", "d", "a", "y">>, <<"a", "c", "t", " ", "n", "o", "w">>, <<"d", "o", "n", "'", "t", " ", "m", "i", "s", "s">> >>

RuleH1 == [rule_id |-> "H1", severity |-> "high"]
RuleF1 == [rule_id |-> "F1", severity |-> "high"]
RuleB1 == [rule_id |-> "B1", severity |-> "medium"]
RuleC1 == [rule_id |-> "C1", severity |-> "medium"]

RulesOfLowerBeforeOrAfter(t_lower) ==
    (IF (Contains(<<"c", "u", "r", "e">>, t_lower) \/ Contains(<<"r", "e", "m", "e", "d", "y">>, t_lower))
        /\ (Contains(<<"g", "u", "a", "r", "a", "n", "t", "e", "e", "d">>, t_lower) \/ Contains(<<"1", "0", "0", "%">>, t_lower))
     THEN <<RuleH1>> ELSE <<>>)
    \o (IF Contains(<<"d", "o", "u", "b", "l", "e", " ", "y", "o", "u", "r", " ", "m", "o", "n", "e", "y">>, t_lower) \/ Contains(<<"g", "u", "a", "r", "a", "n", "t", "e", "e", "d", " ", "r", "e", "t", "u", "r", "n", "s">>, t_lower)
        THEN <<RuleF1>> ELSE <<>>)
    \o (IF Contains(<<"b", "e", "f", "o", "r", "e">>, t_lower) \/ Contains(<<"a", "f", "t", "e", "r">>, t_lower)
        THEN <<RuleB1>> ELSE <<>>)
    \o (IF ContainsAny(fomo_phrases, t_lower) THEN <<RuleC1>> ELSE <<>>)
\* the triggers on the lower-cased text, in the order the code appends them
RulesOfLower(t_lower) ==
    (IF (Contains(<<"c", "u", "r", "e">>, t_lower) \/ Contains(<<"r", "e", "m", "e", "d", "y">>, t_lower))
        /\ (Contains(<<"g", "u", "a", "r", "a", "n", "t", "e", "e", "d">>, t_lower) \/ Contains(<<"1", "0", "0", "%">>, t_lower))
     THEN <<RuleH1>> ELSE <<>>)
    \o (IF Contains(<<"d", "o", "u", "b", "l", "e", " ", "y", "o", "u", "r", " ", "m", "o", "n", "e", "y">>, t_lower) \/ Contains(<<"g", "u", "a", "r", "a", "n", "t", "e", "e", "d", " ", "r", "e", "t", "u", "r", "n", "s">>, t_lower)
        THEN <<RuleF1>> ELSE <<>>)
    \o (IF Contains(<<"b", "e", "f", "o", "r", "e">>, t_lower) /\ Contains(<<"a", "f", "t", "e", "r">>, t_lower)
        THEN <<RuleB1>> ELSE <<>>)
    \o (IF ContainsAny(fomo_phrases, t_lower) THEN <<RuleC1>> ELSE <<>>)

\* t_lower = (text or "").lower()
evaluate_rules(text) == Apply1(RulesOfLower, lower(IF text = NoStr THEN <<>> ELSE text))

HasSeverity(triggers, sev) == \E i \in 1..Len(triggers) : triggers[i].severity = sev

(***************************************************************************)
(* services/catalog.py : BrandCatalog.lookup.  The catalog file            *)
(* (data/brand_catalog.json) is data; the model loads these entries.       *)
(***************************************************************************)
CatalogBrands == <<
    [names |-> << <<"N", "i", "k", "e">> >>, trust_baseline |-> "high", health_advisory |-> {}],
    [names |-> << <<"R", "e", "d", " ", "B", "u", "l", "l">>, <<"R", "e", "d", "B", "u", "l", "l">> >>, trust_baseline |-> "high",
     health_advisory |-> {"High caffeine"}],
    [names |-> << <<"V", "a", "l", "u", "e", "M", "a", "r", "t">> >>, trust_baseline |-> "medium", health_advisory |-> {}],
    [names |-> << <<"Q", "u", "i", "c", "k", "L", "o", "a", "n", "z">> >>, trust_baseline |-> "low", health_advisory |-> {}] >>

NoBrand == [names |-> <<>>, trust_baseline |-> None, health_advisory |-> {}]

\* <<entry, name>> index pairs, ordered as the loops visit them: entries in
\* file order, the names of an entry in list order
EntryNamePairs(brands) ==
    UNION {{<<e, n>> : n \in 1..Len(brands[e].names)} : e \in 1..Len(brands)}

PairBefore(p, q) == p[1] < q[1] \/ (p[1] = q[1] /\ p[2] <= q[2])

FirstPair(ps) == CHOOSE p \in ps : \A q \in ps : PairBefore(p, q)

\* step 1: the first candidate (in candidate order) that equals a name
RECURSIVE LookupCandidates(_, _, _)
LookupCandidates(brands, vision_lower, n) ==
    IF n > Len(vision_lower) THEN NoBrand
    ELSE Apply1(LAMBDA hits : IF hits # {} THEN brands[FirstPair(hits)[1]]
                              ELSE LookupCandidates(brands, vision_lower, n + 1),
                {p \in EntryNamePairs(brands) :
                    lower(brands[p[1]].names[p[2]]) = vision_lower[n]})

\* step 2: the first entry with a name contained in the text
LookupInText(brands, text_lower) ==
    Apply1(LAMBDA in_text : IF in_text # {} THEN brands[FirstPair(in_text)[1]] ELSE NoBrand,
           {p \in EntryNamePairs(brands) : Contains(lower(brands[p[1]].names[p[2]]), text_lower)})

\* lookup(text, vision_brands) on the loaded catalog
lookup_text_only(brands, text, vision_brands) == Apply1(LAMBDA t : LookupInText(brands, t), lower(text))
lookup(brands, text, vision_brands) ==
    Apply2(LAMBDA by_candidate, text_lower :
               IF by_candidate # NoBrand THEN by_candidate ELSE LookupInText(brands, text_lower),
           Apply1(LAMBDA vs : LookupCandidates(brands, vs, 1),
                  [i \in 1..Len(vision_brands) |-> lower(vision_brands[i])]),
           lower(text))

(***************************************************************************)
(* services/reputation.py : get_domain_from_url, check_reputation          *)
(***************************************************************************)
\* None for a URL or a text
InternalHosts == { <<"W", "e", "b", "D", "a", "s", "h", "b", "o", "a", "r", "d">>, <<"l", "o", "c", "a", "l", "h", "o", "s", "t">>, <<"1", "2", "7", ".", "0", ".", "0", ".", "1">> }

\* urlparse(url).netloc for scheme://host/path URLs: the part after "//" up
\* to the first "/", "?" or "#"; empty without "//" after the scheme
HostBeforePath(host) ==
    SubSeq(host, 1, MinOr({i \in 1..Len(host) : host[i] \in {"/", "?", "#"}}, Len(host) + 1) - 1)

NetlocOfRest(rest) ==
    IF StartsWith(rest, <<"/", "/">>) THEN Apply1(HostBeforePath, SubSeq(rest, 3, Len(rest))) ELSE <<>>

Netloc(url) ==
    Apply2(LAMBDA u, colon : Apply1(NetlocOfRest,
                                    IF colon = -1 THEN u ELSE SubSeq(u, colon + 2, Len(u))),
           url, Find(url, <<":">>, 0))

get_domain_from_url(url) ==
    Apply1(LAMBDA u :
               IF u = NoStr \/ u = <<>> THEN NoStr
               ELSE IF ~StartsWith(u, <<"h", "t", "t", "p">>)
                    THEN (IF u \in InternalHosts \/ Contains(<<"e", "x", "t", "e", "n", "s", "i", "o", "n">>, u) THEN u
                          ELSE Netloc(<<"h", "t", "t", "p", ":", "/", "/">> \o u))
                    ELSE Netloc(u),
           url)

spammy_tlds == { <<".", "x", "y", "z">>, <<".", "t", "o", "p">>, <<".", "c", "l", "u", "b">>, <<".", "i", "n", "f", "o">>, <<".", "b", "i", "z">> }

CountChar(s, c) == Cardinality({i \in 1..Len(s) : s[i] = c})

\* the flags of a non-empty target_url with its domain
ReputationFlags(target_url, domain, https) ==
    LET has_domain == domain # NoStr /\ domain # <<>>
    IN (IF https THEN {} ELSE {"Not HTTPS"})
       \cup (IF has_domain /\ Len(domain) > 30 THEN {"Very long domain name"} ELSE {})
       \cup (IF has_domain /\ CountChar(domain, "-") > 3
             THEN {"Excessive hyphens in domain"} ELSE {})
       \cup (IF has_domain /\ \E tld \in spammy_tlds : EndsWith(lower(domain), tld)
             THEN {"Suspicious TLD"} ELSE {})
       \cup (IF has_domain /\ Contains(<<"x", "n", "-", "-">>, lower(domain))
             THEN {"Punycode domain (possible spoofing)"} ELSE {})

\* check_reputation(url, page_origin); the flags are kept as a set of
\* labels (the pipeline only asks whether one other than "Not HTTPS" exists)
check_reputation(url, page_origin) ==
    Apply1(LAMBDA target_url :
               IF target_url = NoStr \/ target_url = <<>>
               THEN [domain |-> NoStr, https |-> FALSE, flags |-> {}]
               ELSE Apply2(LAMBDA domain, https :
                               [domain |-> domain, https |-> https,
                                flags |-> ReputationFlags(target_url, domain, https)],
                           get_domain_from_url(target_url),
                           StartsWith(lower(target_url), <<"h", "t", "t", "p", "s">>)
                               \/ get_domain_from_url(target_url) \in InternalHosts),
           IF url # NoStr /\ url # <<>> THEN url ELSE page_origin)

(***************************************************************************)
(* Python values held by the report and by the opinion reply               *)
(***************************************************************************)
\* a key that is not in the dict
PyAbsent == [t |-> "absent", s |-> <<>>, n |-> 0]
PyNone == [t |-> "none", s |-> <<>>, n |-> 0]
PyStr(s) == [t |-> "str", s |-> s, n |-> 0]
\* a number, in hundredths
PyNum(n) == [t |-> "num", s |-> <<>>, n |-> n]
\* a dict where a scalar is expected: not a str, not a list, unhashable
PyDict == [t |-> "dict", s |-> <<>>, n |-> 0]
\* a list where a scalar is expected
PyList == [t |-> "list", s |-> <<>>, n |-> 0]

\* dict.get(key): a missing key reads as None
Get(v) == IF v.t = "absent" THEN PyNone ELSE v

\* isinstance(v, str) and v.strip()
NonBlankStr(v) == v.t = "str" /\ strip(v.s) # <<>>

DigitValue == [c \in SeqToSet(DigitChars) |-> CHOOSE k \in 0..9 : DigitChars[k + 1] = c]

RECURSIVE DigitsToInt(_)
DigitsToInt(s) ==
    IF s = <<>> THEN 0
    ELSE 10 * DigitsToInt(SubSeq(s, 1, Len(s) - 1)) + DigitValue[s[Len(s)]]

\* float(s) for a str: surrounding whitespace is ignored, a run of decimal
\* digits parses (result in hundredths), anything else here raises ValueError
ParseFloat(s) ==
    \* the strings drawn are digit runs or letters, possibly padded
    Apply1(LAMBDA body : IF body # <<>> /\ \A i \in 1..Len(body) : IsDigit(body[i])
                         THEN Num(100 * DigitsToInt(body))
                         ELSE NoNum,
           strip(s))

\* float(x) guarded by "except Exception": None for None and for what float rejects
ToFloat(v) ==
    CASE v.t = "num" -> Num(v.n)
      [] v.t = "str" -> ParseFloat(v.s)
      [] OTHER -> NoNum

\* round(x / d) to the nearest integer, ties to even
RoundDiv(x, d) ==
    LET q == x \div d
        r == x % d
    IN  IF 2 * r < d THEN q
        ELSE IF 2 * r > d THEN q + 1
        ELSE IF q % 2 = 0 THEN q ELSE q + 1

(***************************************************************************)
(* services/classifier.py : the fused view of a report                     *)
(***************************************************************************)
\* (label or "").lower() for a label that is a str or None
LabelLower(label) == IF label.t = "str" THEN lower(label.s) ELSE <<>>

infer_risk_level_inclusive(label, cred) ==
    Apply1(LAMBDA l :
               IF l = <<"s", "c", "a", "m", "_", "l", "i", "k", "e">> \/ cred <= 4000 THEN <<"h", "i", "g", "h">>
               ELSE IF l \in {<<"r", "i", "s", "k", "y", "_", "p", "r", "o", "m", "o">>, <<"p", "r", "o", "m", "o", "t", "i", "o", "n">>} \/ cred <= 7000 THEN <<"m", "e", "d", "i", "u", "m">>
               ELSE <<"l", "o", "w">>,
           LabelLower(label))
infer_risk_level_from_classic(label, cred) ==
    Apply1(LAMBDA l :
               IF l = <<"s", "c", "a", "m", "_", "l", "i", "k", "e">> \/ cred < 4000 THEN <<"h", "i", "g", "h">>
               ELSE IF l \in {<<"r", "i", "s", "k", "y", "_", "p", "r", "o", "m", "o">>, <<"p", "r", "o", "m", "o", "t", "i", "o", "n">>} \/ cred < 7000 THEN <<"m", "e", "d", "i", "u", "m">>
               ELSE <<"l", "o", "w">>,
           LabelLower(label))

get_effective_label_classic_first(report) ==
    IF NonBlankStr(Get(report.label)) THEN strip(report.label.s)
    ELSE IF NonBlankStr(Get(report.label_llm)) THEN strip(report.label_llm.s)
    ELSE <<"u", "n", "k", "n", "o", "w", "n">>
get_effective_label(report) ==
    IF NonBlankStr(Get(report.label_llm)) THEN strip(report.label_llm.s)
    ELSE IF NonBlankStr(Get(report.label)) THEN strip(report.label.s)
    ELSE <<"u", "n", "k", "n", "o", "w", "n">>

\* round(0.7 * c_llm + 0.3 * c_classic, 2), all in hundredths
BlendEqualWeights(c_llm, c_classic) == RoundDiv(50 * c_llm + 50 * c_classic, 100)
Blend(c_llm, c_classic) == RoundDiv(70 * c_llm + 30 * c_classic, 100)

get_effective_credibility(report) ==
    Apply2(LAMBDA c_classic, c_llm :
               IF c_llm # NoNum /\ c_classic # NoNum THEN Blend(c_llm[1], c_classic[1])
               ELSE IF c_llm # NoNum THEN c_llm[1]
               ELSE IF c_classic # NoNum THEN c_classic[1]
               ELSE 0,
           ToFloat(Get(report.credibility)), ToFloat(Get(report.credibility_llm)))

\* trust.risk_level_llm, stripped and lower-cased, None unless a non-blank str
RiskLevelLlm(v) == IF NonBlankStr(v) THEN lower(strip(v.s)) ELSE NoStr

\* lines 583-592: skip what is not a str, strip, skip what is empty or was
\* seen, keep the others in the order of their first occurrence
DedupSignals(signals) ==
    Apply1(LAMBDA keys :
               Apply1(LAMBDA kept :
                          [k \in 1..Cardinality(kept) |->
                              keys[CHOOSE i \in kept : Cardinality({j \in kept : j < i}) = k - 1]],
                      {i \in 1..Len(signals) :
                          /\ signals[i].t = "str"
                          /\ keys[i] # <<>>
                          /\ ~\E j \in 1..(i - 1) : signals[j].t = "str" /\ keys[j] = keys[i]}),
           [i \in 1..Len(signals) |-> IF signals[i].t = "str" THEN strip(signals[i].s) ELSE <<>>])

\* lines 594-599: the reasons, then every signal that is not among them
ExtendReasonsNoCheck(reasons, dedup) == reasons \o dedup
ExtendReasons(reasons, dedup) ==
    reasons \o SelectSeq(dedup, LAMBDA s : s \notin SeqToSet(reasons))

get_effective_risk_profile(report) ==
    Apply2(LAMBDA cred_classic, cred_llm :
             Apply2(LAMBDA risk_level_llm, risk_level_inferred :
               Apply1(LAMBDA risk_signals_dedup :
                 [label_classic |-> Get(report.label),
                  label_llm |-> Get(report.label_llm),
                  label_final |-> get_effective_label(report),
                  credibility_classic |-> IF cred_classic = NoNum THEN 0 ELSE cred_classic[1],
                  credibility_llm |-> cred_llm,
                  credibility_final |-> get_effective_credibility(report),
                  risk_level_llm |-> risk_level_llm,
                  risk_level_inferred |-> risk_level_inferred,
                  risk_level_final |-> IF risk_level_llm # NoStr THEN risk_level_llm
                                       ELSE risk_level_inferred,
                  risk_signals |-> risk_signals_dedup,
                  reasons |-> ExtendReasons(report.trust.reasons, risk_signals_dedup)],
                 DedupSignals(report.trust.risk_signals)),
               RiskLevelLlm(Get(report.trust.risk_level_llm)),
               infer_risk_level_from_classic(Get(report.label),
                                             IF cred_classic = NoNum THEN 0 ELSE cred_classic[1])),
           ToFloat(Get(report.credibility)), ToFloat(Get(report.credibility_llm)))

(***************************************************************************)
(* services/llm.py : maybe_enhance_with_llm, then the fused profile        *)
(***************************************************************************)
NoTrust == [reasons |-> <<>>, risk_signals |-> <<>>, risk_level_llm |-> PyAbsent]
NoReport == [label |-> PyAbsent, credibility |-> PyAbsent, label_llm |-> PyAbsent,
             credibility_llm |-> PyAbsent, trust |-> NoTrust, llm_summary |-> FALSE,
             product_info_updated |-> FALSE, ocr_enhanced |-> FALSE, llm_error |-> "absent"]
NoExtras == [t |-> "absent", l |-> <<>>]
NoData == [label_llm |-> PyAbsent, credibility_llm |-> PyAbsent,
           product_info_updates |-> PyAbsent, risk_level |-> PyAbsent,
           risk_signals_extra |-> NoExtras, ocr_enhanced |-> PyAbsent]
NoProfile == [label_classic |-> PyNone, label_llm |-> PyNone, label_final |-> <<>>,
              credibility_classic |-> 0, credibility_llm |-> NoNum, credibility_final |-> 0,
              risk_level_llm |-> NoStr, risk_level_inferred |-> <<>>,
              risk_level_final |-> <<>>, risk_signals |-> <<>>, reasons |-> <<>>]

MergeIdle ==
    /\ merge_classic = NoReport
    /\ merge_report = NoReport
    /\ merge_reply = [mode |-> "no_key", data |-> NoData]
    /\ merge_enhanced = NoReport
    /\ merge_profile = NoProfile
    /\ merge_profile2 = NoProfile
    /\ merge_pc = "idle"

(***************************************************************************)
(* main.py : analyze_hover (the /analyze_hover endpoint)                   *)
(***************************************************************************)
NoExc == [class |-> "none", status_code |-> 0, detail_kind |-> "none", detail |-> <<>>]
NoResponse == [status_code |-> 0, detail_kind |-> "none", detail |-> <<>>, cached |-> FALSE]

HoverIdle ==
    /\ hover_payload = [image_base64 |-> NoStr, image_url |-> NoStr, caption_text |-> NoStr,
                        page_origin |-> NoStr, consent |-> FALSE]
    /\ hover_fails = FALSE
    /\ hover_pc = "idle"
    /\ hover_exc = NoExc
    /\ hover_response = NoResponse
    /\ hover_cache = {}

(***************************************************************************)
(* services/pipeline.py : run_analysis_pipeline                            *)
(***************************************************************************)
\* vision_info as the pipeline holds it; ok is bool(vision_info), whether the
\* dict has any key.  NoVision is the initial {}.  VisionError is the dict
\* analyze_image returns when it has no API key or its call fails
\* (vision.py 124-134 and its except): every field empty, plus vision_error.
NoVision == [visual_description |-> <<>>, brand |-> <<>>, product_name |-> <<>>, ok |-> FALSE]
VisionError == [visual_description |-> <<>>, brand |-> <<>>, product_name |-> <<>>, ok |-> TRUE]

NoLoc == [combined_text |-> <<>>, rule_triggers |-> <<>>, label_legacy |-> "generic",
          known_brand |-> NoBrand, health_advisories |-> {}, domain_trust |-> "neutral",
          rep |-> [domain |-> NoStr, https |-> FALSE, flags |-> {}],
          urgency_count |-> 0, legitimacy_score |-> 0, computed_conf |-> 0,
          final_label |-> "unknown", risk_score |-> 0, ocr_text |-> <<>>]

NoResult == [request_id |-> 0, final_label |-> "none", risk_score |-> 0,
             rule_triggers |-> <<>>, ocr_text |-> <<>>, llm_used |-> FALSE,
             cache_hit |-> FALSE, confidence |-> 0]

PipeIdle ==
    /\ payload = [image_base64 |-> NoStr, image_url |-> NoStr, page_url |-> NoStr,
                  ad_text |-> NoStr, use_llm |-> FALSE]
    /\ env = [image_ok |-> FALSE, ocr_text |-> <<>>, vision_info |-> NoVision,
              sim |-> NoNum, brand_entities |-> <<>>, fault |-> "none"]
    /\ pipe_pc = "idle"
    /\ request_id = 0
    /\ loc = NoLoc
    /\ result = NoResult
    /\ CACHE = <<>>
    /\ history = <<>>

\* "x or ''" and truthiness of an Optional[str]
OrEmpty(x) == IF x = NoStr THEN <<>> ELSE x
Truthy(x) == x # NoStr /\ x # <<>>

\* to_hash(image_base64, image_url, ad_text, page_url, use_llm): a digest of
\* the parts' repr; the model keeps the parts themselves as the key
CacheKey(p) == <<p.image_base64, p.image_url, p.ad_text, p.page_url, p.use_llm>>

LocalOrigins == { <<"W", "e", "b", "D", "a", "s", "h", "b", "o", "a", "r", "d">>, <<"E", "x", "t", "e", "n", "s", "i", "o", "n">>, <<"l", "o", "c", "a", "l", "h", "o", "s", "t">>, <<"1", "2", "7", ".", "0", ".", "0", ".", "1">> }

\* step 7: domain_trust from the page_url and the reputation
DomainTrustOf(page_url, rep) ==
    IF Truthy(page_url) /\ page_url \notin LocalOrigins
    THEN (IF rep.flags # {}
          THEN (IF rep.flags \ {"Not HTTPS"} # {} THEN "suspicious" ELSE "neutral")
          ELSE IF rep.https /\ Truthy(rep.domain) THEN "trusted"
          ELSE "neutral")
    ELSE "neutral"

\* step 9: the final label and risk_score from the legitimacy thresholds
FinalLabelNoModerate(legitimacy_score, health_advisories) ==
    IF legitimacy_score >= 50
    THEN [final_label |-> IF health_advisories = {} THEN "SAFE" ELSE "LOW_RISK",
          risk_score |-> 10]
    ELSE [final_label |-> "HIGH_RISK", risk_score |-> 90]
FinalLabel(legitimacy_score, health_advisories) ==
    IF legitimacy_score >= 80
    THEN [final_label |-> IF health_advisories = {} THEN "SAFE" ELSE "LOW_RISK",
          risk_score |-> 10]
    ELSE IF legitimacy_score >= 50
    THEN [final_label |-> "MODERATE_RISK", risk_score |-> 50]
    ELSE [final_label |-> "HIGH_RISK", risk_score |-> 90]

\* step 3: combined_text from the text sources
CombinedText(ocr_text, ad_text, vision_info) ==
    strip(JoinSpace(FilterNonEmpty(
        <<ocr_text, OrEmpty(ad_text), vision_info.visual_description,
          vision_info.product_name, vision_info.brand>>)))

\* steps 7 to 9: the scores and the final label
Scoring(p, e, pil_image, combined_text, known_brand, rep, label_legacy, urgency_count) ==
    LET vision_info == IF pil_image THEN e.vision_info ELSE NoVision
        ocr_text == IF pil_image THEN e.ocr_text ELSE <<>>
        sim == IF pil_image /\ combined_text # <<>> THEN e.sim ELSE NoNum
        health_advisories == known_brand.health_advisory \cup locate_health_advisories(combined_text)
        domain_trust == DomainTrustOf(p.page_url, rep)
        ocr_quality == IF Len(ocr_text) > 50 THEN 100 ELSE 2 * Len(ocr_text)
    IN Apply2(LAMBDA legitimacy_score, computed_conf :
                  Apply1(LAMBDA final :
                             [combined_text |-> combined_text,
                              rule_triggers |-> evaluate_rules(combined_text),
                              label_legacy |-> label_legacy, known_brand |-> known_brand,
                              health_advisories |-> health_advisories,
                              domain_trust |-> domain_trust,
                              rep |-> rep, urgency_count |-> urgency_count,
                              legitimacy_score |-> legitimacy_score,
                              computed_conf |-> computed_conf,
                              final_label |-> final.final_label,
                              risk_score |-> final.risk_score,
                              ocr_text |-> ocr_text],
                         FinalLabel(legitimacy_score, health_advisories)),
              compute_legitimacy_score(label_legacy, known_brand.trust_baseline,
                                       domain_trust, 0, urgency_count),
              compute_model_confidence(vision_info.ok, ocr_quality, known_brand # NoBrand, sim))

\* steps 5 and 6: rules, label, catalog lookup on the combined text
AnalysisOfText(p, e, pil_image, combined_text) ==
    LET vision_brand == IF pil_image THEN e.vision_info.brand ELSE <<>>
        candidates == (IF vision_brand # <<>> THEN <<vision_brand>> ELSE <<>>) \o e.brand_entities
    IN Apply2(LAMBDA known_brand, rep :
                  Apply2(LAMBDA label_legacy, urgency_count :
                             Scoring(p, e, pil_image, combined_text, known_brand, rep,
                                     label_legacy, urgency_count),
                         predict_scam_label(combined_text),
                         Len(locate_spans(lower(combined_text), SCAM_KEYWORDS, "risky_phrase", None))),
              lookup(CatalogBrands, combined_text, candidates),
              check_reputation(p.image_url, p.page_url))

\* steps 1 to 9 of run_analysis_pipeline for payload p with the collaborator
\* results e
Analysis(p, e) ==
    Apply1(LAMBDA pil_image :
               Apply1(LAMBDA combined_text : AnalysisOfText(p, e, pil_image, combined_text),
                      CombinedText(IF pil_image THEN e.ocr_text ELSE <<>>, p.ad_text,
                                   IF pil_image THEN e.vision_info ELSE NoVision)),
           (Truthy(p.image_base64) \/ Truthy(p.image_url)) /\ e.image_ok)

\* step 13: the AnalysisResult (the fields the schema keeps)
BuildResult(l, rid, llm_used) ==
    [request_id |-> rid, final_label |-> l.final_label, risk_score |-> l.risk_score,
     rule_triggers |-> l.rule_triggers, ocr_text |-> l.ocr_text, llm_used |-> llm_used,
     cache_hit |-> FALSE, confidence |-> l.computed_conf]

InCache(key) == \E i \in 1..Len(CACHE) : CACHE[i].key = key
CacheGet(key) == CACHE[CHOOSE i \in 1..Len(CACHE) : CACHE[i].key = key].value
\* CACHE[key] = value
CachePutKeepsFirst(cache, key, value) ==
    IF \E i \in 1..Len(cache) : cache[i].key = key
    THEN cache
    ELSE Append(cache, [key |-> key, value |-> value])
CachePut(cache, key, value) ==
    IF \E i \in 1..Len(cache) : cache[i].key = key
    THEN [i \in 1..Len(cache) |-> IF cache[i].key = key THEN [key |-> key, value |-> value]
                                   ELSE cache[i]]
    ELSE Append(cache, [key |-> key, value |-> value])

\* the collaborators of an evaluation; "opinion_silent" is the opinion service
\* that accepts the call and never answers
Collaborators == {"image", "blur", "ocr", "vision", "nlp", "similarity", "catalog",
                  "reputation", "opinion", "storage"}
Faults == {"none", "opinion_silent"} \cup Collaborators

\* the calls run_analysis_pipeline makes outside any inner try: an exception
\* of check_reputation (line 140), analyze_text (181) or catalog.lookup (215)
\* reaches the outer except
Unguarded == {"reputation", "nlp", "catalog"}

\* what the evaluation sees of the collaborators when e.fault raises inside
\* its inner try: no image, no OCR text, no vision info, no similarity
Degraded(e) ==
    [e EXCEPT !.image_ok = @ /\ e.fault # "image",
              !.ocr_text = IF e.fault = "ocr" THEN <<>> ELSE @,
              !.vision_info = IF e.fault = "vision" THEN NoVision ELSE @,
              !.sim = IF e.fault = "similarity" THEN NoNum ELSE @]

\* storage.save_analysis: a failure is logged and swallowed
SaveAnalysis(h, r, e) == IF e.fault = "storage" THEN h ELSE Append(h, r.request_id)

\* lines 114-122: a cache hit returns the stored result under a new request_id
PipelineCacheHitStoresBack ==
    /\ pipe_pc = "start"
    /\ InCache(CacheKey(payload))
    /\ result' = [CacheGet(CacheKey(payload)) EXCEPT !.request_id = request_id, !.cache_hit = TRUE]
    /\ CACHE' = CachePut(CACHE, CacheKey(payload), result')
    /\ pipe_pc' = "done"
    /\ UNCHANGED <<payload, env, request_id, loc, history, notPipe>>
PipelineCacheHit ==
    /\ pipe_pc = "start"
    /\ InCache(CacheKey(payload))
    /\ result' = [CacheGet(CacheKey(payload)) EXCEPT !.request_id = request_id, !.cache_hit = TRUE]
    /\ pipe_pc' = "done"
    /\ UNCHANGED <<payload, env, request_id, loc, CACHE, history, notPipe>>

\* a miss without use_llm: steps 1 to 14 run without suspension
PipelineRun ==
    /\ pipe_pc = "start"
    /\ ~InCache(CacheKey(payload))
    /\ ~payload.use_llm
    /\ env.fault \notin Unguarded
    /\ \E l \in {Analysis(payload, Degraded(env))} :
        \E r \in {BuildResult(l, request_id, FALSE)} :
            /\ loc' = l
            /\ result' = r
            /\ CACHE' = CachePut(CACHE, CacheKey(payload), r)
            /\ history' = SaveAnalysis(history, r, env)
    /\ pipe_pc' = "done"
    /\ UNCHANGED <<payload, env, request_id, notPipe>>

\* a miss with use_llm: steps 1 to 10, then the opinion call is awaited
PipelineAnalyzeCachesFirst ==
    /\ pipe_pc = "start"
    /\ ~InCache(CacheKey(payload))
    /\ payload.use_llm
    /\ env.fault \notin Unguarded
    /\ loc' = Analysis(payload, Degraded(env))
    /\ pipe_pc' = "llm"
    /\ CACHE' = CachePut(CACHE, CacheKey(payload), BuildResult(loc', request_id, FALSE))
    /\ UNCHANGED <<payload, env, request_id, result, history, notPipe>>
PipelineAnalyze ==
    /\ pipe_pc = "start"
    /\ ~InCache(CacheKey(payload))
    /\ payload.use_llm
    /\ env.fault \notin Unguarded
    /\ loc' = Analysis(payload, Degraded(env))
    /\ pipe_pc' = "llm"
    /\ UNCHANGED <<payload, env, request_id, result, CACHE, history, notPipe>>

\* the opinion call returned, with an opinion or (fault "opinion") with
\* llm_error: steps 12 to 14.  Nothing in llm.py 267-277 or pipeline.py 327-334
\* ends the await when the service stays silent.
PipelineFinish ==
    /\ pipe_pc = "llm"
    /\ env.fault # "opinion_silent"
    /\ \E r \in {BuildResult(loc, request_id, TRUE)} :
        /\ result' = r
        /\ CACHE' = CachePut(CACHE, CacheKey(payload), r)
        /\ history' = SaveAnalysis(history, r, env)
    /\ pipe_pc' = "done"
    /\ UNCHANGED <<payload, env, request_id, loc, notPipe>>

\* the same payload is sent again
NewRequest ==
    /\ pipe_pc = "done"
    /\ request_id < MaxRequests
    /\ request_id' = request_id + 1
    /\ pipe_pc' = "start"
    /\ result' = NoResult
    /\ UNCHANGED <<payload, env, loc, CACHE, history, notPipe>>

AdTexts == {
    NoStr,
    <<"F", "r", "e", "s", "h", " ", "b", "r", "e", "a", "d", " ", "d", "a", "i", "l", "y">>,
    <<"M", "i", "r", "a", "c", "l", "e", " ", "c", "u", "r", "e", " ", "1", "0", "0", "%", " ", "g", "u", "a", "r", "a", "n", "t", "e", "e", "d">>,
    <<"D", "o", "u", "b", "l", "e", " ", "y", "o", "u", "r", " ", "m", "o", "n", "e", "y">>,
    <<"B", "e", "f", "o", "r", "e", " ", "a", "n", "d", " ", "a", "f", "t", "e", "r">>,
    <<"A", "c", "t", " ", "n", "o", "w", ",", " ", "b", "i", "g", " ", "s", "a", "l", "e">>,
    <<"W", "I", "N", " ", "C", "A", "S", "H", " ", "N", "O", "W", "!", " ", "1", "0", "0", "%", " ", "g", "u", "a", "r", "a", "n", "t", "e", "e", "d", " ", "r", "e", "t", "u", "r", "n", "s", ",", " ", "b", "u", "y", " ", "n", "o", "w", "!">>,
    <<"1", "0", "0", "%", " ", "F", "R", "E", "E", " ", "g", "i", "f", "t", " ", "9", "0", "%", " ", "o", "f", "f">>,
    <<"c", "r", "y", "p", "t", "o", " ", "e", "n", "e", "r", "g", "y", " ", "d", "r", "i", "n", "k">>,
    <<"N", "i", "k", "e", ":", " ", "w", "i", "n", " ", "c", "a", "s", "h", ",", " ", "g", "u", "a", "r", "a", "n", "t", "e", "e", "d", " ", "r", "e", "t", "u", "r", "n", "s">>,
    <<"N", "i", "k", "e", " ", "w", "i", "n", "n", "e", "r", "!", " ", "J", "a", "c", "k", "p", "o", "t", " ", "l", "o", "t", "t", "e", "r", "y", ",", " ", "n", "o", " ", "r", "i", "s", "k", ",", " ", "r", "i", "s", "k", " ", "f", "r", "e", "e", ",", " ", "w", "i", "n", "n", "e", "r">> }

PageUrls == {
    NoStr,
    <<"W", "e", "b", "D", "a", "s", "h", "b", "o", "a", "r", "d">>,
    <<"h", "t", "t", "p", "s", ":", "/", "/", "s", "h", "o", "p", ".", "e", "x", "a", "m", "p", "l", "e", ".", "c", "o", "m", "/", "a", "d">>,
    <<"h", "t", "t", "p", ":", "/", "/", "s", "h", "o", "p", ".", "e", "x", "a", "m", "p", "l", "e", ".", "c", "o", "m", "/", "a", "d">>,
    <<"h", "t", "t", "p", ":", "/", "/", "w", "i", "n", "-", "b", "i", "g", ".", "x", "y", "z">> }

ImageUrls == { NoStr, <<"h", "t", "t", "p", "s", ":", "/", "/", "c", "d", "n", ".", "e", "x", "a", "m", "p", "l", "e", ".", "c", "o", "m", "/", "a", ".", "p", "n", "g">> }

OcrTexts == { <<>>, <<"N", "i", "k", "e">>, <<"V", "a", "l", "u", "e", "M", "a", "r", "t", " ", "Q", "u", "i", "c", "k", "L", "o", "a", "n", "z">> }

VisionInfos == {
    NoVision,
    VisionError,
    [visual_description |-> <<"a", " ", "c", "a", "n">>, brand |-> <<"r", "e", "d", " ", "b", "u", "l", "l">>, product_name |-> <<>>, ok |-> TRUE] }

InitPipe ==
    /\ payload \in [image_base64 : {NoStr}, image_url : ImageUrls, page_url : PageUrls,
                    ad_text : AdTexts, use_llm : BOOLEAN]
    /\ env \in [image_ok : BOOLEAN, ocr_text : OcrTexts, vision_info : VisionInfos,
                sim : {NoNum, Num(60)}, brand_entities : {<<>>}, fault : {"none"}]
    /\ (Truthy(payload.image_url) /\ env.image_ok)
        \/ (env.ocr_text = <<>> /\ env.vision_info = NoVision /\ env.sim = NoNum /\ ~env.image_ok)
    /\ pipe_pc = "start"
    /\ request_id = 1
    /\ loc = NoLoc
    /\ result = NoResult
    /\ CACHE = <<>>
    /\ history = <<>>
    /\ LegitIdle
    /\ ConfIdle
    /\ HoverIdle
    /\ MergeIdle
    /\ EvidenceIdle
    /\ OverlapIdle

NextPipe ==
    \/ PipelineCacheHit
    \/ PipelineRun
    \/ PipelineAnalyze
    \/ PipelineFinish
    \/ NewRequest

SpecPipe == InitPipe /\ [][NextPipe]_vars

(***************************************************************************)
(* services/pipeline.py : run_analysis_pipeline with failing collaborators *)
(***************************************************************************)
\* lines 385-392: an exception that no inner try caught becomes
\* HTTPException(status_code=500); no AnalysisResult is returned
PipelineRaise ==
    /\ pipe_pc = "start"
    /\ ~InCache(CacheKey(payload))
    /\ env.fault \in Unguarded
    /\ pipe_pc' = "raised"
    /\ UNCHANGED <<payload, env, request_id, loc, result, CACHE, history, notPipe>>

\* the task is cancelled at its one suspension point, the awaited opinion
\* call: CancelledError is not an Exception, so neither except clause (llm.py
\* 351, pipeline.py 331 and 385) catches it and the coroutine ends there
PipelineCancel ==
    /\ pipe_pc = "llm"
    /\ pipe_pc' = "cancelled"
    /\ UNCHANGED <<payload, env, request_id, loc, result, CACHE, history, notPipe>>

\* the next request: the same content with or without use_llm, and with the
\* collaborators failing or not
NextEvaluation ==
    /\ pipe_pc \in {"done", "raised", "cancelled"}
    /\ request_id < MaxRequests
    /\ request_id' = request_id + 1
    /\ pipe_pc' = "start"
    /\ result' = NoResult
    /\ \E use_llm \in BOOLEAN : payload' = [payload EXCEPT !.use_llm = use_llm]
    /\ \E fault \in Faults : env' = [env EXCEPT !.fault = fault]
    /\ UNCHANGED <<loc, CACHE, history, notPipe>>

FaultAdTexts == { NoStr, <<"A", "c", "t", " ", "n", "o", "w", ",", " ", "b", "i", "g", " ", "s", "a", "l", "e">> }

InitFault ==
    /\ payload \in [image_base64 : {NoStr}, image_url : ImageUrls,
                    page_url : {<<"h", "t", "t", "p", "s", ":", "/", "/", "s", "h", "o", "p", ".", "e", "x", "a", "m", "p", "l", "e", ".", "c", "o", "m", "/", "a", "d">>},
                    ad_text : FaultAdTexts, use_llm : BOOLEAN]
    /\ env \in [image_ok : BOOLEAN, ocr_text : {<<>>, <<"N", "i", "k", "e">>}, vision_info : VisionInfos,
                sim : {NoNum, Num(60)}, brand_entities : {<<>>}, fault : Faults]
    /\ (Truthy(payload.image_url) /\ env.image_ok)
        \/ (env.ocr_text = <<>> /\ env.vision_info = NoVision /\ env.sim = NoNum /\ ~env.image_ok)
    /\ pipe_pc = "start"
    /\ request_id = 1
    /\ loc = NoLoc
    /\ result = NoResult
    /\ CACHE = <<>>
    /\ history = <<>>
    /\ LegitIdle
    /\ ConfIdle
    /\ HoverIdle
    /\ MergeIdle
    /\ EvidenceIdle
    /\ OverlapIdle

\* the steps the server takes by itself, as opposed to a client's requests
\* and disconnects
PipelineStep ==
    \/ PipelineCacheHit
    \/ PipelineRun
    \/ PipelineAnalyze
    \/ PipelineFinish
    \/ PipelineRaise

NextFault ==
    \/ PipelineCacheHit
    \/ PipelineRun
    \/ PipelineAnalyze
    \/ PipelineFinish
    \/ PipelineRaise
    \/ PipelineCancel
    \/ NextEvaluation

\* the event loop runs a coroutine that can take a step
SpecFault == InitFault /\ [][NextFault]_vars /\ WF_vars(PipelineStep)

(***************************************************************************)
(* services/pipeline.py : two evaluations of one payload on the event loop *)
(***************************************************************************)
\* run_analysis_pipeline is a coroutine whose only await is the opinion call
\* (line 331): everything before it and everything after it runs without
\* another task in between.  tasks[i] holds what evaluation i keeps in its
\* own frame; CACHE and the history file are the process's.
Tasks == 1..2

\* lines 114-122 in task i
TaskCacheHit(i) ==
    /\ tasks[i].pc = "start"
    /\ InCache(CacheKey(payload))
    /\ tasks' = [tasks EXCEPT ![i].pc = "done",
                              ![i].result = [CacheGet(CacheKey(payload)) EXCEPT
                                                 !.request_id = tasks[i].request_id,
                                                 !.cache_hit = TRUE]]
    /\ UNCHANGED <<payload, env, CACHE, history, notOverlap>>

\* a miss without use_llm in task i: lines 124-383 without suspension
TaskRun(i) ==
    /\ tasks[i].pc = "start"
    /\ ~InCache(CacheKey(payload))
    /\ ~payload.use_llm
    /\ \E l \in {Analysis(payload, Degraded(env))} :
        \E r \in {BuildResult(l, tasks[i].request_id, FALSE)} :
            /\ tasks' = [tasks EXCEPT ![i].pc = "done", ![i].loc = l, ![i].result = r]
            /\ CACHE' = CachePut(CACHE, CacheKey(payload), r)
            /\ history' = SaveAnalysis(history, r, env)
    /\ UNCHANGED <<payload, env, notOverlap>>

\* a miss with use_llm in task i: lines 124-330, then the task is suspended
\* at the await of line 331
TaskAnalyze(i) ==
    /\ tasks[i].pc = "start"
    /\ ~InCache(CacheKey(payload))
    /\ payload.use_llm
    /\ tasks' = [tasks EXCEPT ![i].pc = "llm", ![i].loc = Analysis(payload, Degraded(env))]
    /\ UNCHANGED <<payload, env, CACHE, history, notOverlap>>

\* the opinion call of task i returned: lines 332-383, with the cache write
\* of line 380 and the history write of line 381
TaskFinish(i) ==
    /\ tasks[i].pc = "llm"
    /\ \E r \in {BuildResult(tasks[i].loc, tasks[i].request_id, TRUE)} :
        /\ tasks' = [tasks EXCEPT ![i].pc = "done", ![i].result = r]
        /\ CACHE' = CachePut(CACHE, CacheKey(payload), r)
        /\ history' = SaveAnalysis(history, r, env)
    /\ UNCHANGED <<payload, env, notOverlap>>

\* two requests with the same payload have arrived; each has its request_id
\* (line 101)
InitOverlap ==
    /\ payload \in [image_base64 : {NoStr}, image_url : {NoStr}, page_url : PageUrls,
                    ad_text : AdTexts, use_llm : BOOLEAN]
    /\ env = [image_ok |-> FALSE, ocr_text |-> <<>>, vision_info |-> NoVision,
              sim |-> NoNum, brand_entities |-> <<>>, fault |-> "none"]
    /\ tasks = [i \in Tasks |-> [pc |-> "start", request_id |-> i, loc |-> NoLoc,
                                 result |-> NoResult]]
    /\ pipe_pc = "idle"
    /\ request_id = 0
    /\ loc = NoLoc
    /\ result = NoResult
    /\ CACHE = <<>>
    /\ history = <<>>
    /\ LegitIdle
    /\ ConfIdle
    /\ HoverIdle
    /\ MergeIdle
    /\ EvidenceIdle

NextOverlap ==
    \/ \E i \in Tasks : TaskCacheHit(i)
    \/ \E i \in Tasks : TaskRun(i)
    \/ \E i \in Tasks : TaskAnalyze(i)
    \/ \E i \in Tasks : TaskFinish(i)

SpecOverlap == InitOverlap /\ [][NextOverlap]_vars

(***************************************************************************)
(* main.py : analyze_hover, the handler                                    *)
(***************************************************************************)
\* lines 146-149: HTTPException(status_code=400, detail="Provide ...")
NoContentDetail == <<"P", "r", "o", "v", "i", "d", "e", " ", "i", "m", "a", "g", "e", "_", "b", "a", "s", "e", "6", "4", ",", " ", "i", "m", "a", "g", "e", "_", "u", "r", "l", ",", " ", "o", "r", " ", "c", "a", "p", "t", "i", "o", "n", "_", "t", "e", "x", "t", " ", "t", "o", " ", "a", "n", "a", "l", "y", "z", "e", ".">>

\* the classes analyze_hover raises; all of them derive from Exception
\* (fastapi.HTTPException is a subclass of Exception)
DerivesFromException(class) == class \in {"HTTPException", "Exception"}

\* line 145: payload.image_base64 or payload.image_url or payload.caption_text
HasContent(p) == Truthy(p.image_base64) \/ Truthy(p.image_url) \/ Truthy(p.caption_text)

\* lines 151-158: to_hash(image_base64, image_url, caption_text, page_origin, bool(consent))
HoverKey(p) == <<p.image_base64, p.image_url, p.caption_text, p.page_origin, p.consent>>

\* lines 144-149: inside the try block, the content check raises the 400
HoverCheckContent ==
    /\ hover_pc = "start"
    /\ IF ~HasContent(hover_payload)
       THEN /\ hover_exc' = [class |-> "HTTPException", status_code |-> 400,
                             detail_kind |-> "text", detail |-> NoContentDetail]
            /\ hover_pc' = "raised_in_try"
       ELSE /\ hover_exc' = hover_exc
            /\ hover_pc' = "analyze"
    /\ UNCHANGED <<hover_payload, hover_fails, hover_response, hover_cache, notHover>>

\* lines 151-161: a cached report is returned
HoverCacheHit ==
    /\ hover_pc = "analyze"
    /\ HoverKey(hover_payload) \in hover_cache
    /\ hover_response' = [status_code |-> 200, detail_kind |-> "none", detail |-> <<>>,
                          cached |-> TRUE]
    /\ hover_pc' = "responded"
    /\ UNCHANGED <<hover_payload, hover_fails, hover_exc, hover_cache, notHover>>

\* lines 163-346: the analysis; it either builds and caches the report or an
\* unguarded step (analyze_text, predict_label, ...) raises inside the try
HoverAnalyze ==
    /\ hover_pc = "analyze"
    /\ HoverKey(hover_payload) \notin hover_cache
    /\ IF hover_fails
       THEN /\ hover_exc' = [class |-> "Exception", status_code |-> 0,
                             detail_kind |-> "none", detail |-> <<>>]
            /\ hover_pc' = "raised_in_try"
            /\ UNCHANGED <<hover_response, hover_cache>>
       ELSE /\ hover_response' = [status_code |-> 200, detail_kind |-> "none",
                                  detail |-> <<>>, cached |-> FALSE]
            /\ hover_cache' = hover_cache \cup {HoverKey(hover_payload)}
            /\ hover_pc' = "responded"
            /\ hover_exc' = hover_exc
    /\ UNCHANGED <<hover_payload, hover_fails, notHover>>

\* lines 348-351: "except Exception as exc" catches whatever the try block
\* raised and raises HTTPException(500, detail={"error": ..., "trace": ...})
HoverExcept ==
    /\ hover_pc = "raised_in_try"
    /\ IF DerivesFromException(hover_exc.class)
       THEN hover_exc' = [class |-> "HTTPException", status_code |-> 500,
                          detail_kind |-> "dict", detail |-> <<>>]
       ELSE hover_exc' = hover_exc
    /\ hover_pc' = "raised"
    /\ UNCHANGED <<hover_payload, hover_fails, hover_response, hover_cache, notHover>>

\* FastAPI answers an HTTPException that leaves the handler with its
\* status_code and {"detail": detail}
HoverRespond ==
    /\ hover_pc = "raised"
    /\ hover_response' = [status_code |-> hover_exc.status_code,
                          detail_kind |-> hover_exc.detail_kind,
                          detail |-> hover_exc.detail, cached |-> FALSE]
    /\ hover_exc' = NoExc
    /\ hover_pc' = "responded"
    /\ UNCHANGED <<hover_payload, hover_fails, hover_cache, notHover>>

\* the client posts the same payload again
HoverAgain ==
    /\ hover_pc = "responded"
    /\ hover_response.status_code = 200
    /\ ~hover_response.cached
    /\ hover_response' = NoResponse
    /\ hover_pc' = "start"
    /\ UNCHANGED <<hover_payload, hover_fails, hover_exc, hover_cache, notHover>>

HoverStrings == {NoStr, <<>>, <<"x">>}

InitHover ==
    /\ hover_payload \in [image_base64 : HoverStrings, image_url : HoverStrings,
                          caption_text : HoverStrings, page_origin : {NoStr, <<"x">>},
                          consent : BOOLEAN]
    /\ hover_fails \in BOOLEAN
    /\ hover_pc = "start"
    /\ hover_exc = NoExc
    /\ hover_response = NoResponse
    /\ hover_cache = {}
    /\ LegitIdle
    /\ ConfIdle
    /\ PipeIdle
    /\ MergeIdle
    /\ EvidenceIdle
    /\ OverlapIdle

NextHover ==
    \/ HoverCheckContent
    \/ HoverCacheHit
    \/ HoverAnalyze
    \/ HoverExcept
    \/ HoverRespond
    \/ HoverAgain

SpecHover == InitHover /\ [][NextHover]_vars

(***************************************************************************)
(* services/llm.py : maybe_enhance_with_llm, the steps                     *)
(***************************************************************************)
\* build_full_report: the classic report handed to maybe_enhance_with_llm
ClassicReport(label, credibility, reasons, risk_signals) ==
    [label |-> label, credibility |-> credibility, label_llm |-> PyAbsent,
     credibility_llm |-> PyAbsent,
     trust |-> [reasons |-> reasons, risk_signals |-> risk_signals,
                risk_level_llm |-> PyAbsent],
     llm_summary |-> FALSE, product_info_updated |-> FALSE, ocr_enhanced |-> FALSE,
     llm_error |-> "absent"]

\* all the lists list(set(xs)) can return: the distinct elements in any order
SetOrders(elems) ==
    {f \in [1..Cardinality(elems) -> elems] :
        \A i, j \in 1..Cardinality(elems) : i # j => f[i] # f[j]}

\* "if key in data: enhanced[key] = data[key]"
Taken(old, new) == IF new.t = "absent" THEN old ELSE new

\* lines 302-309: updates.items() raises unless the updates are a dict
ProductInfoRaises(data) == data.product_info_updates.t \notin {"absent", "dict"}

\* lines 316-321: set() raises on an unhashable element of the merged list
RiskSignalsRaise(data) ==
    /\ data.risk_signals_extra.t = "list"
    /\ \E i \in 1..Len(data.risk_signals_extra.l) : data.risk_signals_extra.l[i].t = "dict"

\* lines 325-329: "ocr_text_clean" in data["ocr_enhanced"] raises on a number
OcrEnhancedRaises(data) == data.ocr_enhanced.t = "num"

\* lines 312-322: the trust dict after the merge that picked signals as the
\* list of the set; the dict is the report's own, updated in place
MergedTrust(trust, data, signals) ==
    [reasons |-> trust.reasons,
     risk_signals |-> IF data.risk_signals_extra.t = "list" /\ ~RiskSignalsRaise(data)
                      THEN signals ELSE trust.risk_signals,
     risk_level_llm |-> Taken(trust.risk_level_llm, data.risk_level)]

\* lines 285-353: the report after the merge of data, up to the statement
\* that raises if one does
MergedReport(report, data, signals) ==
    [label |-> report.label,
     credibility |-> report.credibility,
     label_llm |-> Taken(report.label_llm, data.label_llm),
     credibility_llm |-> Taken(report.credibility_llm, data.credibility_llm),
     trust |-> IF ProductInfoRaises(data) THEN report.trust
               ELSE MergedTrust(report.trust, data, signals),
     llm_summary |-> TRUE,
     product_info_updated |-> ~ProductInfoRaises(data) /\ data.product_info_updates.t = "dict",
     ocr_enhanced |-> /\ ~ProductInfoRaises(data) /\ ~RiskSignalsRaise(data)
                      /\ data.ocr_enhanced.t = "dict",
     llm_error |-> IF ProductInfoRaises(data) THEN "AttributeError"
                   ELSE IF RiskSignalsRaise(data) THEN "TypeError: unhashable"
                   ELSE IF OcrEnhancedRaises(data) THEN "TypeError: not iterable"
                   ELSE "absent"]

\* lines 247-256: no key or no client; the copy gets llm_error
EnhanceWithoutClient ==
    /\ merge_pc = "start"
    /\ merge_reply.mode \in {"no_key", "no_client"}
    /\ merge_enhanced' = [merge_report EXCEPT !.llm_error = merge_reply.mode]
    /\ merge_pc' = "enhanced"
    /\ UNCHANGED <<merge_classic, merge_report, merge_reply, merge_profile, merge_profile2, notMerge>>

\* lines 247-268: the copy is made and the request awaits its reply
EnhanceCall ==
    /\ merge_pc = "start"
    /\ merge_reply.mode \notin {"no_key", "no_client"}
    /\ merge_enhanced' = merge_report
    /\ merge_pc' = "awaiting"
    /\ UNCHANGED <<merge_classic, merge_report, merge_reply, merge_profile, merge_profile2, notMerge>>

\* lines 268-283, 351-353: the call, the empty-content check or json.loads raises
EnhanceReplyFails ==
    /\ merge_pc = "awaiting"
    /\ merge_reply.mode \in {"transport_error", "empty_reply", "unparsable"}
    /\ merge_enhanced' = [merge_enhanced EXCEPT !.llm_error = merge_reply.mode]
    /\ merge_pc' = "enhanced"
    /\ UNCHANGED <<merge_classic, merge_report, merge_reply, merge_profile, merge_profile2, notMerge>>

\* lines 283-355: the reply parses and is merged into the copy.  The copy is
\* dict(report), a shallow one: the trust and product_info dicts are the
\* caller's own objects (lines 303-308, 312-322 update them in place), so
\* they change in the caller's report as well
EnhanceMerge ==
    /\ merge_pc = "awaiting"
    /\ merge_reply.mode = "ok"
    /\ \E signals \in SetOrders(SeqToSet(merge_enhanced.trust.risk_signals
                                         \o merge_reply.data.risk_signals_extra.l)) :
          /\ merge_enhanced' = MergedReport(merge_enhanced, merge_reply.data, signals)
          /\ merge_report' = [merge_report EXCEPT
                                  !.trust = merge_enhanced'.trust,
                                  !.product_info_updated = merge_enhanced'.product_info_updated]
    /\ merge_pc' = "enhanced"
    /\ UNCHANGED <<merge_classic, merge_reply, merge_profile, merge_profile2, notMerge>>

\* get_effective_risk_profile of the report that maybe_enhance_with_llm returned
FuseProfile ==
    /\ merge_pc = "enhanced"
    /\ merge_profile' = get_effective_risk_profile(merge_enhanced)
    /\ merge_pc' = "profiled"
    /\ UNCHANGED <<merge_classic, merge_report, merge_reply, merge_enhanced, merge_profile2, notMerge>>

\* the fused profile as the classic input of a merge without opinion
ReportOfProfile(p) ==
    ClassicReport(PyStr(p.label_final), PyNum(p.credibility_final), p.reasons,
                  [i \in 1..Len(p.risk_signals) |-> PyStr(p.risk_signals[i])])

FuseAgain ==
    /\ merge_pc = "profiled"
    /\ merge_profile2' = get_effective_risk_profile(ReportOfProfile(merge_profile))
    /\ merge_pc' = "remerged"
    /\ UNCHANGED <<merge_classic, merge_report, merge_reply, merge_enhanced, merge_profile, notMerge>>

MergeLabels == {PyStr(<<"g", "e", "n", "e", "r", "i", "c">>), PyStr(<<"s", "c", "a", "m", "_", "l", "i", "k", "e">>), PyStr(<<"p", "r", "o", "m", "o", "t", "i", "o", "n">>), PyNone}
MergeCredibilities == {PyNum(8000), PyNum(3999), PyNone}
MergeSignals == {<<>>, <<PyStr(<<"a">>), PyStr(<<"b">>)>>, <<PyStr(<<" ", "a">>), PyStr(<<"a">>)>>}
MergeReasons == {<<>>, <<<<"a">>, <<"r">>>>}
ReplyModes == {"no_key", "no_client", "transport_error", "empty_reply", "unparsable", "ok"}
ReplyData ==
    [label_llm : {PyAbsent, PyStr(<<" ", "s", "c", "a", "m", "_", "l", "i", "k", "e", " ">>), PyStr(<<" ", " ">>), PyList},
     credibility_llm : {PyAbsent, PyNum(2000), PyStr(<<"a", "b", "c">>)},
     product_info_updates : {PyAbsent, PyDict, PyStr(<<"n", "/", "a">>)},
     risk_level : {PyAbsent, PyStr(<<" ", "L", "O", "W", " ">>), PyStr(<<"c", "r", "i", "t", "i", "c", "a", "l">>)},
     risk_signals_extra : {NoExtras, [t |-> "other", l |-> <<>>],
                           [t |-> "list", l |-> <<PyStr(<<"c">>), PyStr(<<"a", " ">>)>>],
                           [t |-> "list", l |-> <<PyStr(<<"c">>), PyDict>>]},
     ocr_enhanced : {PyAbsent, PyNum(1)}]

InitMerge ==
    /\ \E label \in MergeLabels, credibility \in MergeCredibilities,
          reasons \in MergeReasons, risk_signals \in MergeSignals :
          merge_classic = ClassicReport(label, credibility, reasons, risk_signals)
    /\ merge_report = merge_classic
    /\ merge_reply \in ([mode : ReplyModes \ {"ok"}, data : {NoData}]
                            \cup [mode : {"ok"}, data : ReplyData])
    /\ merge_enhanced = NoReport
    /\ merge_profile = NoProfile
    /\ merge_profile2 = NoProfile
    /\ merge_pc = "start"
    /\ LegitIdle
    /\ ConfIdle
    /\ PipeIdle
    /\ HoverIdle
    /\ EvidenceIdle
    /\ OverlapIdle

NextMerge ==
    \/ EnhanceWithoutClient
    \/ EnhanceCall
    \/ EnhanceReplyFails
    \/ EnhanceMerge
    \/ FuseProfile
    \/ FuseAgain

SpecMerge == InitMerge /\ [][NextMerge]_vars

(***************************************************************************)
(* services/classifier.py : _build_risk_signals and build_full_report      *)
(***************************************************************************)
RECURSIVE IntToDigits(_)
\* str(n) for n >= 0
IntToDigits(n) ==
    IF n < 10 THEN <<DigitChars[n + 1]>>
    ELSE IntToDigits(n \div 10) \o <<DigitChars[(n % 10) + 1]>>

\* the last position of the run of digits that starts at i
RunEnd(t, i) ==
    CHOOSE j \in i..Len(t) :
        /\ \A d \in i..j : IsDigit(t[d])
        /\ j = Len(t) \/ ~IsDigit(t[j + 1])

\* the regex \b(\d{2,})\s*% off\b matches with its digits starting at i
PercentOffAt(t, i) ==
    /\ IsDigit(t[i])
    /\ i = 1 \/ ~IsWord(t[i - 1])
    /\ \E j \in {RunEnd(t, i)} :
          /\ j > i
          /\ \E k \in (j + 1)..Len(t) :
                /\ \A w \in (j + 1)..(k - 1) : IsSpace(t[w])
                /\ MatchAt(t, <<"%", " ", "o", "f", "f">>, k - 1)
                /\ k + 4 = Len(t) \/ ~IsWord(t[k + 5])

\* lines 332-338: one signal for every match of 70 percent or more, in the
\* order of the matches
DiscountSignals(lower_text) ==
    Apply1(LAMBDA starts :
               [n \in 1..Cardinality(starts) |->
                   Apply1(LAMBDA i :
                              <<"U", "n", "u", "s", "u", "a", "l", "l", "y", " ", "l", "a", "r", "g", "e", " ", "d", "i", "s", "c", "o", "u", "n", "t", " ", "m", "e", "n", "t", "i", "o", "n", "e", "d", " ", "(">>
                              \o IntToDigits(DigitsToInt(SubSeq(lower_text, i, RunEnd(lower_text, i))))
                              \o <<"%", " ", "o", "f", "f", ")", ".">>,
                          CHOOSE i \in starts : Cardinality({j \in starts : j < i}) = n - 1)],
           {i \in 1..Len(lower_text) :
               /\ PercentOffAt(lower_text, i)
               /\ DigitsToInt(SubSeq(lower_text, i, RunEnd(lower_text, i))) >= 70})

\* _build_risk_signals(label, credibility, nlp_res), with nlp_res given by
\* its raw_text and the number of its strong_phrases
build_risk_signals(label, credibility, raw_text, n_strong) ==
    Apply1(LAMBDA lower_text :
               (IF n_strong >= 6 THEN <<<<"C", "o", "n", "t", "a", "i", "n", "s", " ", "m", "a", "n", "y", " ", "u", "r", "g", "e", "n", "c", "y", " ", "/", " ", "s", "t", "r", "o", "n", "g", "-", "s", "e", "l", "l", " ", "p", "h", "r", "a", "s", "e", "s", ".">>>>
                ELSE IF n_strong >= 3 THEN <<<<"C", "o", "n", "t", "a", "i", "n", "s", " ", "s", "e", "v", "e", "r", "a", "l", " ", "u", "r", "g", "e", "n", "c", "y", " ", "/", " ", "s", "t", "r", "o", "n", "g", "-", "s", "e", "l", "l", " ", "p", "h", "r", "a", "s", "e", "s", ".">>>>
                ELSE <<>>)
               \o DiscountSignals(lower_text)
               \o (IF Contains(<<"f", "r", "e", "e">>, lower_text)
                      /\ (Contains(<<"g", "i", "f", "t">>, lower_text) \/ Contains(<<"r", "e", "w", "a", "r", "d">>, lower_text)
                          \/ Contains(<<"b", "o", "n", "u", "s">>, lower_text))
                   THEN <<<<"M", "e", "n", "t", "i", "o", "n", "s", " ", "'", "f", "r", "e", "e", "'", " ", "t", "o", "g", "e", "t", "h", "e", "r", " ", "w", "i", "t", "h", " ", "g", "i", "f", "t", "s", "/", "r", "e", "w", "a", "r", "d", "s", " ", "(", "c", "h", "e", "c", "k", " ", "d", "e", "t", "a", "i", "l", "s", " ", "c", "a", "r", "e", "f", "u", "l", "l", "y", ")", ".">>>>
                   ELSE <<>>)
               \o (IF Contains(<<"n", "o", " ", "r", "i", "s", "k">>, lower_text) \/ Contains(<<"g", "u", "a", "r", "a", "n", "t", "e", "e", "d", " ", "r", "e", "t", "u", "r", "n", "s">>, lower_text)
                   THEN <<<<"P", "r", "o", "m", "i", "s", "e", "s", " ", "'", "n", "o", " ", "r", "i", "s", "k", "'", " ", "o", "r", " ", "g", "u", "a", "r", "a", "n", "t", "e", "e", "d", " ", "r", "e", "t", "u", "r", "n", "s", " ", "(", "p", "o", "t", "e", "n", "t", "i", "a", "l", " ", "r", "e", "d", " ", "f", "l", "a", "g", ")", ".">>>>
                   ELSE <<>>)
               \o (IF label = <<"s", "c", "a", "m", "_", "l", "i", "k", "e">>
                   THEN <<<<"O", "v", "e", "r", "a", "l", "l", " ", "p", "a", "t", "t", "e", "r", "n", " ", "o", "f", " ", "t", "e", "x", "t", " ", "l", "o", "o", "k", "s", " ", "s", "i", "m", "i", "l", "a", "r", " ", "t", "o", " ", "s", "c", "a", "m", "-", "s", "t", "y", "l", "e", " ", "m", "e", "s", "s", "a", "g", "e", "s", ".">>>>
                   ELSE <<>>)
               \o (IF credibility < 4000
                   THEN <<<<"L", "o", "w", " ", "o", "v", "e", "r", "a", "l", "l", " ", "t", "r", "u", "s", "t", " ", "s", "c", "o", "r", "e", " ", "f", "r", "o", "m", " ", "c", "o", "m", "b", "i", "n", "e", "d", " ", "s", "i", "g", "n", "a", "l", "s", ".">>>>
                   ELSE <<>>),
           lower(raw_text))

\* build_full_report: the label, the credibility and the trust block; the
\* reasons are those of the explanation followed by the risk signals
build_full_report(label, credibility, raw_text, n_strong, base_reasons) ==
    Apply1(LAMBDA risk_signals :
               ClassicReport(PyStr(label), PyNum(credibility),
                             base_reasons \o risk_signals,
                             [i \in 1..Len(risk_signals) |-> PyStr(risk_signals[i])]),
           build_risk_signals(label, credibility, raw_text, n_strong))

(***************************************************************************)
(* services/classifier.py : get_effective_risk_profile over reports        *)
(***************************************************************************)
\* a report as get_effective_risk_profile may be handed one: a classic report
\* carrying the opinion fields the function reads (label_llm, credibility_llm,
\* trust.risk_level_llm) and further entries in trust.risk_signals
Overlay(classic, label_llm, credibility_llm, risk_level_llm, extras) ==
    [classic EXCEPT !.label_llm = label_llm,
                    !.credibility_llm = credibility_llm,
                    !.trust.risk_level_llm = risk_level_llm,
                    !.trust.risk_signals = @ \o extras]

FuseLabels == {PyStr(<<"g", "e", "n", "e", "r", "i", "c">>), PyStr(<<"s", "c", "a", "m", "_", "l", "i", "k", "e">>), PyStr(<<"p", "r", "o", "m", "o", "t", "i", "o", "n">>),
               PyStr(<<"r", "i", "s", "k", "y", "_", "p", "r", "o", "m", "o">>), PyStr(<<" ", " ">>), PyNone}
FuseCredibilities == {PyNum(8000), PyNum(7000), PyNum(6999), PyNum(4000), PyNum(3999),
                      PyNone, PyStr(<<"a", "b", "c">>)}
FuseTrusts == {[reasons |-> <<>>, risk_signals |-> <<>>],
               [reasons |-> <<<<"a">>, <<"r">>>>, risk_signals |-> <<PyStr(<<"a">>), PyStr(<<"b">>)>>],
               [reasons |-> <<>>, risk_signals |-> <<PyStr(<<" ", "a">>), PyStr(<<"a">>)>>]}

\* the texts build_full_report is applied to
FuseTexts == {<<>>, <<"S", "a", "l", "e", ":", " ", "9", "0", "%", " ", "o", "f", "f", " ", "s", "h", "o", "e", "s", ",", " ", "9", "0", "%", " ", "o", "f", "f", " ", "b", "a", "g", "s">>, <<"F", "R", "E", "E", " ", "g", "i", "f", "t", ",", " ", "0", "7", "5", "%", " ", "o", "f", "f", ",", " ", "n", "o", " ", "r", "i", "s", "k">>,
              <<"u", "p", " ", "t", "o", " ", "5", "0", "%", " ", "o", "f", "f">>}

\* reports that build_full_report returns
BuiltReports ==
    {build_full_report(label, credibility, raw_text, n_strong, <<>>) :
        label \in {<<"g", "e", "n", "e", "r", "i", "c">>, <<"s", "c", "a", "m", "_", "l", "i", "k", "e">>}, credibility \in {8000, 3000},
        raw_text \in FuseTexts, n_strong \in {0, 3, 6}}

\* reports with any label, credibility and trust block
PlainReports ==
    {ClassicReport(label, credibility, trust.reasons, trust.risk_signals) :
        label \in FuseLabels, credibility \in FuseCredibilities, trust \in FuseTrusts}

OpinionLabels == {PyAbsent, PyStr(<<" ", "s", "c", "a", "m", "_", "l", "i", "k", "e", " ">>), PyStr(<<" ", " ">>), PyList}
OpinionCredibilities == {PyAbsent, PyNum(2000), PyNum(15000), PyNum(-500), PyStr(<<"a", "b", "c">>)}
OpinionRiskLevels == {PyAbsent, PyStr(<<" ", "L", "O", "W", " ">>), PyStr(<<"c", "r", "i", "t", "i", "c", "a", "l">>), PyStr(<<" ", " ">>), PyNum(100)}
OpinionExtras == {<<>>, <<PyStr(<<"c">>), PyStr(<<"a", " ">>)>>, <<PyNum(500), PyStr(<<" ", " ">>), PyStr(<<"c">>)>>}

InitFuse ==
    /\ merge_classic \in PlainReports \cup BuiltReports
    /\ merge_report = merge_classic
    /\ merge_reply = [mode |-> "ok", data |-> NoData]
    /\ \E label_llm \in OpinionLabels, credibility_llm \in OpinionCredibilities,
          risk_level_llm \in OpinionRiskLevels, extras \in OpinionExtras :
          merge_enhanced = Overlay(merge_classic, label_llm, credibility_llm,
                                   risk_level_llm, extras)
    /\ merge_profile = NoProfile
    /\ merge_profile2 = NoProfile
    /\ merge_pc = "enhanced"
    /\ LegitIdle
    /\ ConfIdle
    /\ PipeIdle
    /\ HoverIdle
    /\ EvidenceIdle
    /\ OverlapIdle

NextFuse ==
    \/ FuseProfile
    \/ FuseAgain

SpecFuse == InitFuse /\ [][NextFuse]_vars

(***************************************************************************)
(* services/classifier.py : extract_evidence_spans; services/pipeline.py : *)
(* extract_evidence.  Specification SpecEvidence applies them, the rule    *)
(* engine and _locate_spans to drawn texts.                                *)
(***************************************************************************)
\* extract_evidence_spans(text): text.lower() is an AttributeError on None;
\* otherwise the scam spans followed by the health spans, and the distinct
\* subcategories
extract_evidence_spans(text) ==
    IF text = NoStr THEN [raised |-> TRUE, spans |-> <<>>, subcats |-> {}]
    ELSE Apply1(LAMBDA t :
                    Apply2(LAMBDA s_spans, h_spans :
                               [raised |-> FALSE, spans |-> s_spans \o h_spans,
                                subcats |-> (IF s_spans # <<>> THEN {"urgency"} ELSE {})
                                            \cup (IF h_spans # <<>> THEN {"health-claim"} ELSE {})],
                           locate_spans(t, SCAM_KEYWORDS, "risky_phrase", "urgency"),
                           locate_spans(t, HEALTH_KEYWORDS, "advisory_phrase", "health-claim")),
                lower(text))

\* pipeline.py 81-88: the span of one strong phrase
PhraseSpan(p, text) ==
    Apply1(LAMBDA idx : [text |-> p, start |-> idx,
                         end |-> IF idx # -1 THEN idx + Len(p) ELSE -1,
                         kind |-> "risky_phrase"],
           Find(lower(text), lower(p), 0))

\* the risky_phrases of extract_evidence(nlp_res, text)
extract_evidence(strong_phrases, text) ==
    [i \in 1..Len(strong_phrases) |-> PhraseSpan(strong_phrases[i], text)]

EvaluateRules ==
    /\ "rules" \notin ev_done
    /\ ev_rules' = evaluate_rules(ev_text)
    /\ ev_done' = ev_done \cup {"rules"}
    /\ UNCHANGED <<ev_text, ev_keywords, ev_phrases, ev_spans, ev_located, ev_evidence,
                   notEvidence>>

ExtractEvidenceSpans ==
    /\ "spans" \notin ev_done
    /\ ev_spans' = extract_evidence_spans(ev_text)
    /\ ev_done' = ev_done \cup {"spans"}
    /\ UNCHANGED <<ev_text, ev_keywords, ev_phrases, ev_rules, ev_located, ev_evidence,
                   notEvidence>>

\* the callers hand _locate_spans the lower-cased text
LocateSpans ==
    /\ "located" \notin ev_done
    /\ ev_located' = locate_spans(IF ev_text = NoStr THEN NoStr ELSE lower(ev_text),
                                  ev_keywords, "risky_phrase", None)
    /\ ev_done' = ev_done \cup {"located"}
    /\ UNCHANGED <<ev_text, ev_keywords, ev_phrases, ev_rules, ev_spans, ev_evidence,
                   notEvidence>>

\* run_analysis_pipeline hands extract_evidence its combined_text, a str
ExtractEvidence ==
    /\ "evidence" \notin ev_done
    /\ ev_text # NoStr
    /\ ev_evidence' = extract_evidence(ev_phrases, ev_text)
    /\ ev_done' = ev_done \cup {"evidence"}
    /\ UNCHANGED <<ev_text, ev_keywords, ev_phrases, ev_rules, ev_spans, ev_located,
                   notEvidence>>

EvidenceTexts == {
    NoStr,
    <<>>,
    <<"W", "I", "N", " ", "C", "A", "S", "H", " ", "N", "O", "W", "!", " ", "W", "i", "n", " ", "c", "a", "s", "h", " ", "t", "o", "d", "a", "y">>,
    <<"M", "i", "r", "a", "c", "l", "e", " ", "c", "u", "r", "e", " ", "1", "0", "0", "%", " ", "g", "u", "a", "r", "a", "n", "t", "e", "e", "d">>,
    <<"R", "e", "m", "e", "d", "y", ",", " ", "g", "u", "a", "r", "a", "n", "t", "e", "e", "d">>,
    <<"T", "h", "e", " ", "c", "u", "r", "e">>,
    <<"D", "o", "u", "b", "l", "e", " ", "Y", "o", "u", "r", " ", "M", "o", "n", "e", "y">>,
    <<"B", "e", "f", "o", "r", "e", " ", "a", "n", "d", " ", "a", "f", "t", "e", "r">>,
    <<"b", "e", "f", "o", "r", "e", " ", "l", "u", "n", "c", "h">>,
    <<"A", "c", "t", " ", "n", "o", "w", ",", " ", "l", "i", "m", "i", "t", "e", "d", " ", "t", "i", "m", "e">>,
    <<"D", "O", "N", "'", "T", " ", "M", "I", "S", "S", ":", " ", "o", "n", "l", "y", " ", "t", "o", "d", "a", "y">>,
    <<"H", "a", "h", "a", "h", "a", " ", "h", "a", "h", "a", ",", " ", "A", "C", "T", " ", "N", "O", "W">>,
    <<"N", "o", " ", "r", "i", "s", "k", "!", " ", "C", "a", "f", "f", "e", "i", "n", "e", " ", "c", "u", "r", "e", ",", " ", "t", "h", "e", " ", "c", "u", "r", "e">>,
    <<"g", "u", "a", "r", "a", "n", "t", "e", "e", "d", " ", "r", "e", "t", "u", "r", "n", "s", " ", "b", "e", "f", "o", "r", "e", " ", "a", "f", "t", "e", "r", " ", "c", "u", "r", "e", " ", "a", "c", "t", " ", "n", "o", "w">> }

EvidenceKeywords == { SCAM_KEYWORDS, HEALTH_KEYWORDS, << <<"h", "a", "h", "a">>, <<"a", "c", "t", " ", "n", "o", "w">> >> }

EvidencePhrases == { <<>>, << <<"A", "c", "t", " ", "N", "o", "w">>, <<"f", "r", "e", "e">> >>, << <<"c", "u", "r", "e">> >> }

InitEvidence ==
    /\ ev_text \in EvidenceTexts
    /\ ev_keywords \in EvidenceKeywords
    /\ ev_phrases \in EvidencePhrases
    /\ ev_done = {}
    /\ ev_rules = <<>>
    /\ ev_spans = NoSpans
    /\ ev_located = <<>>
    /\ ev_evidence = <<>>
    /\ LegitIdle
    /\ ConfIdle
    /\ PipeIdle
    /\ HoverIdle
    /\ MergeIdle
    /\ OverlapIdle

NextEvidence ==
    \/ EvaluateRules
    \/ ExtractEvidenceSpans
    \/ LocateSpans
    \/ ExtractEvidence

SpecEvidence == InitEvidence /\ [][NextEvidence]_vars

(***************************************************************************)
(* Specification SpecLegit: compute_legitimacy_score applied to drawn      *)
(* arguments, once per catalog_trust, the other arguments held fixed.      *)
(***************************************************************************)
InitLegit ==
    /\ legit_in \in [scam_label : ScamLabels, domain_trust : DomainTrusts,
                     sentiment_score : {0, 90}, urgency_count : 0..MaxUrgency]
    /\ legit_out = [ct \in CatalogTrusts |-> NoNum]
    /\ ConfIdle
    /\ PipeIdle
    /\ HoverIdle
    /\ MergeIdle
    /\ EvidenceIdle
    /\ OverlapIdle

ComputeLegitimacy(ct) ==
    /\ legit_out[ct] = NoNum
    /\ legit_out' = [legit_out EXCEPT ![ct] =
            Num(compute_legitimacy_score(legit_in.scam_label, ct, legit_in.domain_trust,
                                         legit_in.sentiment_score, legit_in.urgency_count))]
    /\ UNCHANGED <<legit_in, notLegit>>

NextLegit == \E ct \in CatalogTrusts : ComputeLegitimacy(ct)

SpecLegit == InitLegit /\ [][NextLegit]_vars

(***************************************************************************)
(* Specification SpecConf: compute_model_confidence applied to drawn       *)
(* arguments.                                                              *)
(***************************************************************************)
\* values in hundredths around the code's thresholds 0, 0.2, 0.5, 0.8, 1
QualityValues == {0, 2, 20, 21, 50, 51, 80, 81, 100}
SimValues == {0, 20, 21, 50, 51, 100}

InitConf ==
    /\ conf_in \in [vision_success : BOOLEAN, ocr_quality_score : QualityValues,
                    catalog_match : BOOLEAN, image_text_sim : {Num(v) : v \in SimValues} \cup {NoNum}]
    /\ conf_out = NoNum
    /\ LegitIdle
    /\ PipeIdle
    /\ HoverIdle
    /\ MergeIdle
    /\ EvidenceIdle
    /\ OverlapIdle

ComputeConfidence ==
    /\ conf_out = NoNum
    /\ conf_out' = Num(compute_model_confidence(conf_in.vision_success, conf_in.ocr_quality_score,
                                                conf_in.catalog_match, conf_in.image_text_sim))
    /\ UNCHANGED <<conf_in, notConf>>

NextConf == ComputeConfidence

SpecConf == InitConf /\ [][NextConf]_vars

(***************************************************************************)
(* Claims on the scoring formulas                                          *)
(***************************************************************************)
\* the order the claim gives: high >= medium >= low >= None
TrustRank(ct) ==
    IF ct = "high" THEN 3 ELSE IF ct = "medium" THEN 2 ELSE IF ct = "low" THEN 1 ELSE 0

\* C7 (as stated): with the other arguments fixed, a catalog_trust that is
\* higher in the order high >= medium >= low >= None never gives a lower score.
C7_MonotoneTotalOrder ==
    \A a, b \in CatalogTrusts :
        (legit_out[a] # NoNum /\ legit_out[b] # NoNum /\ TrustRank(a) >= TrustRank(b))
            => legit_out[a][1] >= legit_out[b][1]

\* the pairs of catalog trusts the scores are ordered on
OrderedTrustPairs ==
    {<<"high", "medium">>, <<"high", "low">>, <<"high", None>>, <<"medium", None>>}

\* C7 (amended): with the other arguments fixed, the score for high is at
\* least the score for medium, low and None, and the score for medium is at
\* least the score for None.
C7_MonotoneWhereOrdered ==
    \A p \in OrderedTrustPairs :
        (legit_out[p[1]] # NoNum /\ legit_out[p[2]] # NoNum)
            => legit_out[p[1]][1] >= legit_out[p[2]][1]

\* all four scores computed, with high strictly above medium above None
C7_Witness ==
    /\ \A ct \in CatalogTrusts : legit_out[ct] # NoNum
    /\ legit_out["medium"][1] > legit_out[None][1]
    /\ legit_out["high"][1] > legit_out["medium"][1]

\* C8: compute_legitimacy_score returns a value in [0,100].
C8_LegitimacyInRange ==
    \A ct \in CatalogTrusts :
        legit_out[ct] # NoNum => (legit_out[ct][1] >= 0 /\ legit_out[ct][1] <= 100)

\* a call whose unclamped score is below 0 (scam_like, suspicious, urgent)
C8_Witness ==
    /\ legit_in.scam_label = "scam_like"
    /\ legit_in.domain_trust = "suspicious"
    /\ legit_in.urgency_count > 5
    /\ legit_out[None] = Num(0)
    /\ legit_out["high"] # NoNum

\* C9: compute_model_confidence returns a value in [0.15, 0.95].
C9_ConfidenceInRange ==
    conf_out # NoNum => (conf_out[1] >= 15 /\ conf_out[1] <= 95)

\* the floor is reached: nothing extracted, no vision, no catalog match
C9_Witness ==
    /\ conf_out = Num(15)
    /\ ~conf_in.vision_success /\ conf_in.ocr_quality_score = 0 /\ ~conf_in.catalog_match

(***************************************************************************)
(* Claims on the final label of run_analysis_pipeline                      *)
(***************************************************************************)
Returned == pipe_pc = "done" /\ result # NoResult

\* C2: whenever the rule engine emits a high-severity trigger, the final
\* label is HIGH_RISK and the risk_score is at least 0.9, whatever the
\* legitimacy score.
C2_HighTriggerForcesHighRisk ==
    (Returned /\ HasSeverity(result.rule_triggers, "high"))
        => (result.final_label = "HIGH_RISK" /\ result.risk_score >= 90)

\* C3: whenever the rule engine emits a medium-severity trigger and the
\* legitimacy thresholds alone give SAFE or LOW_RISK (legitimacy >= 80), the
\* final label is MODERATE_RISK and the risk_score is at least 0.6.
C3_MediumTriggerEscalates ==
    (Returned /\ HasSeverity(result.rule_triggers, "medium") /\ loc.legitimacy_score >= 80)
        => (result.final_label = "MODERATE_RISK" /\ result.risk_score >= 60)

\* C10: the final label and risk_score are given by the legitimacy thresholds
\* alone: >= 80 is SAFE without an advisory and LOW_RISK with one, risk_score
\* 0.1; 50 to below 80 is MODERATE_RISK, 0.5; below 50 is HIGH_RISK, 0.9.
C10_LabelByThresholds ==
    Returned =>
        /\ loc.legitimacy_score >= 80 =>
            /\ result.final_label = (IF loc.health_advisories = {} THEN "SAFE" ELSE "LOW_RISK")
            /\ result.risk_score = 10
        /\ (loc.legitimacy_score >= 50 /\ loc.legitimacy_score < 80) =>
            (result.final_label = "MODERATE_RISK" /\ result.risk_score = 50)
        /\ loc.legitimacy_score < 50 =>
            (result.final_label = "HIGH_RISK" /\ result.risk_score = 90)

\* an evaluation in the middle band that carries a rule trigger, which the
\* thresholds ignore
C10_Witness ==
    /\ Returned
    /\ ~result.cache_hit
    /\ loc.legitimacy_score >= 50 /\ loc.legitimacy_score < 80
    /\ result.rule_triggers # <<>>
    /\ result.final_label = "MODERATE_RISK"

(***************************************************************************)
(* Claim on /analyze_hover                                                 *)
(***************************************************************************)
\* C1: a POST to /analyze_hover with no image_base64, no image_url and no
\* caption_text is answered with status 400 and a textual detail that
\* mentions the image or the caption, never with another status.
C1_NoContentIs400 ==
    (hover_pc = "responded" /\ ~HasContent(hover_payload))
        => /\ hover_response.status_code = 400
           /\ hover_response.detail_kind = "text"
           /\ Contains(<<"i", "m", "a", "g", "e">>, lower(hover_response.detail))
                \/ Contains(<<"c", "a", "p", "t", "i", "o", "n">>, lower(hover_response.detail))

(***************************************************************************)
(* Claims on the opinion merge                                             *)
(***************************************************************************)
\* the opinion call failed: no key, no client, the call or the parsing
\* raised, or a statement of the merge raised on a malformed field
OpinionFailed ==
    \/ merge_reply.mode # "ok"
    \/ ProductInfoRaises(merge_reply.data)
    \/ RiskSignalsRaise(merge_reply.data)
    \/ OcrEnhancedRaises(merge_reply.data)

\* C4: when the opinion call fails at any point, the report that goes on
\* carries no label_llm, no credibility_llm, no trust.risk_level_llm and no
\* opinion-added risk signal, its label_final, credibility_final and
\* risk_level_final are the classic ones, and llm_error records the failure.
C4_FailureKeepsClassicOnly ==
    (merge_pc = "profiled" /\ OpinionFailed)
        => /\ merge_enhanced.llm_error # "absent"
           /\ merge_enhanced.label_llm = PyAbsent
           /\ merge_enhanced.credibility_llm = PyAbsent
           /\ merge_enhanced.trust.risk_level_llm = PyAbsent
           /\ merge_enhanced.trust.risk_signals = merge_classic.trust.risk_signals
           /\ \E classic \in {get_effective_risk_profile(merge_classic)} :
                 /\ merge_profile.label_final = classic.label_final
                 /\ merge_profile.credibility_final = classic.credibility_final
                 /\ merge_profile.risk_level_final = classic.risk_level_final

\* the fields of two profiles that C5 compares, with or without the risk level
SameFused(p, q) ==
    /\ p.label_final = q.label_final
    /\ p.credibility_final = q.credibility_final
    /\ p.risk_signals = q.risk_signals
    /\ p.reasons = q.reasons

\* C5 as stated: merging the fused profile again, without opinion, gives the
\* same label_final, credibility_final, risk_level_final, risk_signals and
\* reasons.
C5_RemergeReproducesAll ==
    merge_pc = "remerged"
        => /\ SameFused(merge_profile2, merge_profile)
           /\ merge_profile2.risk_level_final = merge_profile.risk_level_final

\* C5 amended: merging the fused profile again, without opinion, gives the
\* same label_final, credibility_final, risk_signals and reasons.
C5_RemergeReproducesFused ==
    merge_pc = "remerged" => SameFused(merge_profile2, merge_profile)

\* an opinion with a label, a credibility, a risk level and extra signals was
\* merged, it added a reason, and the second merge gave another risk level
C5_Witness ==
    /\ merge_pc = "remerged"
    /\ merge_enhanced.llm_error = "absent"
    /\ NonBlankStr(merge_profile.label_llm)
    /\ merge_profile.credibility_llm # NoNum
    /\ merge_profile.risk_level_llm # NoStr
    /\ merge_reply.data.risk_signals_extra.t = "list"
    /\ Len(merge_profile.risk_signals) >= 3
    /\ Len(merge_profile.reasons) > Len(merge_classic.trust.reasons)
    /\ merge_profile.credibility_final = 3800
    /\ merge_profile2.risk_level_final # merge_profile.risk_level_final
    /\ SameFused(merge_profile2, merge_profile)

\* the classic signals followed by the opinion's extra signals, each a str
SignalsInOrder ==
    merge_classic.trust.risk_signals
        \o (IF merge_reply.data.risk_signals_extra.t = "list"
            THEN merge_reply.data.risk_signals_extra.l ELSE <<>>)

\* the position at which the trimmed value first occurs among the signals
FirstSeen(key, signals) ==
    MinOr({i \in 1..Len(signals) : signals[i].t = "str" /\ strip(signals[i].s) = key}, 0)

\* C6: the fused risk_signals are the classic signals followed by the
\* opinion's extra signals, trimmed, without duplicates, each value at the
\* place of its first occurrence.
C6_SignalsUnionFirstSeen ==
    (merge_pc = "profiled" /\ ~OpinionFailed)
        => \E out \in {merge_profile.risk_signals}, all \in {SignalsInOrder} :
              /\ SeqToSet(out) = {strip(all[i].s) : i \in {j \in 1..Len(all) : all[j].t = "str"}}
                                    \ {<<>>}
              /\ \A i, j \in 1..Len(out) :
                    i < j => FirstSeen(out[i], all) < FirstSeen(out[j], all)

(***************************************************************************)
(* Claims on the fused profile                                             *)
(***************************************************************************)
\* the credibilities of the fused report as floats, NoNum when absent or
\* not parseable
ClassicCredibility == ToFloat(Get(merge_enhanced.credibility))
OpinionCredibility == ToFloat(Get(merge_enhanced.credibility_llm))

\* credibility_final when at most one credibility is present
OneOrNoCredibility ==
    /\ (OpinionCredibility # NoNum /\ ClassicCredibility = NoNum)
          => merge_profile.credibility_final = OpinionCredibility[1]
    /\ (OpinionCredibility = NoNum /\ ClassicCredibility # NoNum)
          => merge_profile.credibility_final = ClassicCredibility[1]
    /\ (OpinionCredibility = NoNum /\ ClassicCredibility = NoNum)
          => merge_profile.credibility_final = 0

\* C11 as stated: with both credibilities present credibility_final is
\* 0.7 * opinion + 0.3 * classic; with one present it is that one; with none
\* it is 0.0.  (Hundredths: 100 * final = 70 * opinion + 30 * classic.)
C11_BlendExact ==
    merge_pc = "profiled"
        => /\ (OpinionCredibility # NoNum /\ ClassicCredibility # NoNum)
                 => 100 * merge_profile.credibility_final
                        = 70 * OpinionCredibility[1] + 30 * ClassicCredibility[1]
           /\ OneOrNoCredibility

\* C11 amended: with both present credibility_final is 0.7 * opinion +
\* 0.3 * classic rounded to two decimals, so within 0.005 of the blend.
C11_BlendRounded ==
    merge_pc = "profiled"
        => /\ (OpinionCredibility # NoNum /\ ClassicCredibility # NoNum)
                 => \E blend \in {70 * OpinionCredibility[1] + 30 * ClassicCredibility[1]} :
                       /\ 100 * merge_profile.credibility_final - blend <= 50
                       /\ blend - 100 * merge_profile.credibility_final <= 50
           /\ OneOrNoCredibility

\* opinion 20 and classic 80 gave 38.0
C11_Witness ==
    /\ merge_pc = "profiled"
    /\ OpinionCredibility = Num(2000)
    /\ ClassicCredibility = Num(8000)
    /\ merge_profile.credibility_final = 3800

\* a str that is not empty
NonEmptyStr(v) == v.t = "str" /\ v.s # <<>>

\* C12 as stated: label_final is the opinion label when that is a non-empty
\* string, else the classic label when that is a non-empty string, else
\* "unknown"; a non-string or blank opinion label does not override.
C12_LabelPrecedenceAsGiven ==
    merge_pc = "profiled"
        => \E o \in {Get(merge_enhanced.label_llm)}, c \in {Get(merge_enhanced.label)} :
              merge_profile.label_final =
                  IF NonBlankStr(o) THEN o.s
                  ELSE IF NonBlankStr(c) THEN c.s
                  ELSE <<"u", "n", "k", "n", "o", "w", "n">>

\* C12 amended: the same precedence, the winning label being returned with
\* its surrounding whitespace removed.
C12_LabelPrecedenceTrimmed ==
    merge_pc = "profiled"
        => \E o \in {Get(merge_enhanced.label_llm)}, c \in {Get(merge_enhanced.label)} :
              merge_profile.label_final =
                  IF NonBlankStr(o) THEN strip(o.s)
                  ELSE IF NonBlankStr(c) THEN strip(c.s)
                  ELSE <<"u", "n", "k", "n", "o", "w", "n">>

\* a padded opinion label won over a classic label, trimmed
C12_Witness ==
    /\ merge_pc = "profiled"
    /\ merge_enhanced.label_llm = PyStr(<<" ", "s", "c", "a", "m", "_", "l", "i", "k", "e", " ">>)
    /\ merge_enhanced.label = PyStr(<<"g", "e", "n", "e", "r", "i", "c">>)
    /\ merge_profile.label_final = <<"s", "c", "a", "m", "_", "l", "i", "k", "e">>

\* the level section 4.3 infers from the classic label and credibility, the
\* label compared in lower case and a missing credibility counted as 0.0
InferredLevel ==
    \E l \in {LabelLower(Get(merge_enhanced.label))},
       c \in {IF ClassicCredibility = NoNum THEN 0 ELSE ClassicCredibility[1]} :
        \/ (l = <<"s", "c", "a", "m", "_", "l", "i", "k", "e">> \/ c < 4000)
              /\ merge_profile.risk_level_final = <<"h", "i", "g", "h">>
        \/ ~(l = <<"s", "c", "a", "m", "_", "l", "i", "k", "e">> \/ c < 4000)
              /\ (l \in {<<"r", "i", "s", "k", "y", "_", "p", "r", "o", "m", "o">>, <<"p", "r", "o", "m", "o", "t", "i", "o", "n">>} \/ c < 7000)
              /\ merge_profile.risk_level_final = <<"m", "e", "d", "i", "u", "m">>
        \/ ~(l = <<"s", "c", "a", "m", "_", "l", "i", "k", "e">> \/ c < 4000)
              /\ ~(l \in {<<"r", "i", "s", "k", "y", "_", "p", "r", "o", "m", "o">>, <<"p", "r", "o", "m", "o", "t", "i", "o", "n">>} \/ c < 7000)
              /\ merge_profile.risk_level_final = <<"l", "o", "w">>

\* C13 as stated: risk_level_final is the opinion risk level when one is
\* present and non-empty, and the inferred level when none is present.
C13_RiskLevelAsGiven ==
    merge_pc = "profiled"
        => \E o \in {Get(merge_enhanced.trust.risk_level_llm)} :
              /\ NonEmptyStr(o) => merge_profile.risk_level_final = o.s
              /\ o.t = "none" => InferredLevel

\* C13 amended: risk_level_final is the opinion risk level, trimmed and in
\* lower case, when it is a non-blank string; otherwise the inferred level.
C13_RiskLevelNormalised ==
    merge_pc = "profiled"
        => \E o \in {Get(merge_enhanced.trust.risk_level_llm)} :
              /\ NonBlankStr(o) => merge_profile.risk_level_final = lower(strip(o.s))
              /\ ~NonBlankStr(o) => InferredLevel

\* no opinion level, a classic credibility of exactly 40.0 and a label that
\* decides nothing: medium
C13_Witness ==
    /\ merge_pc = "profiled"
    /\ Get(merge_enhanced.trust.risk_level_llm).t = "none"
    /\ merge_enhanced.label = PyStr(<<"g", "e", "n", "e", "r", "i", "c">>)
    /\ ClassicCredibility = Num(4000)
    /\ merge_profile.risk_level_final = <<"m", "e", "d", "i", "u", "m">>

\* C14: whatever the opinion payload, risk_level_final is low, medium or high.
C14_RiskLevelInRange ==
    merge_pc = "profiled"
        => merge_profile.risk_level_final \in {<<"l", "o", "w">>, <<"m", "e", "d", "i", "u", "m">>, <<"h", "i", "g", "h">>}

\* C15: credibility_final is in [0, 100] for every report.
C15_CredibilityInRange ==
    merge_pc = "profiled"
        => merge_profile.credibility_final >= 0 /\ merge_profile.credibility_final <= 10000

\* C16: every risk signal of the fused profile is among its reasons, and the
\* reasons are the classic reasons in their order followed by the signals
\* that were not among them, in the order of risk_signals.
C16_ReasonsCoverSignals ==
    merge_pc = "profiled"
        => \E rs \in {merge_profile.reasons}, cr \in {merge_enhanced.trust.reasons},
              sg \in {merge_profile.risk_signals} :
              /\ \A i \in 1..Len(sg) : sg[i] \in SeqToSet(rs)
              /\ Len(rs) >= Len(cr)
              /\ SubSeq(rs, 1, Len(cr)) = cr
              /\ Len(rs) - Len(cr) = Cardinality(SeqToSet(sg) \ SeqToSet(cr))
              /\ \A k \in (Len(cr) + 1)..Len(rs) :
                    /\ rs[k] \in SeqToSet(sg) \ SeqToSet(cr)
                    /\ \A m \in (k + 1)..Len(rs) :
                          FirstSeen(rs[k], [i \in 1..Len(sg) |-> PyStr(sg[i])])
                              < FirstSeen(rs[m], [i \in 1..Len(sg) |-> PyStr(sg[i])])

\* one signal was already a reason and two were appended
C16_Witness ==
    /\ merge_pc = "profiled"
    /\ merge_enhanced.trust.reasons = <<<<"a">>, <<"r">>>>
    /\ merge_profile.risk_signals = <<<<"a">>, <<"b">>, <<"c">>>>
    /\ merge_profile.reasons = <<<<"a">>, <<"r">>, <<"b">>, <<"c">>>>

HasDuplicates(s) == \E i, j \in 1..Len(s) : i < j /\ s[i] = s[j]

\* C17: the reasons of the fused profile of a report that build_full_report
\* produced, enhanced or not, hold no entry twice.
C17_ReasonsWithoutDuplicates ==
    (merge_pc = "profiled" /\ HasDuplicates(merge_profile.reasons))
        => merge_classic \notin BuiltReports

(***************************************************************************)
(* Claims on failing collaborators, waiting and the cache                  *)
(***************************************************************************)
\* C18: an evaluation never surfaces an error: whichever single collaborator
\* fails, it does not end in an exception but returns an AnalysisResult.
C18_NeverSurfacesError == pipe_pc # "raised"

C20_CacheOnlyOnCompletion ==
    [][CACHE' # CACHE =>
           /\ pipe_pc' = "done"
           /\ result' = BuildResult(loc', request_id, payload.use_llm)
           /\ result'.final_label # "unknown"
           /\ CACHE' = CachePut(CACHE, CacheKey(payload), result')]_vars

\* an evaluation was cancelled during its opinion call, after its analysis
\* was computed, while the cache held the result of an earlier evaluation
C20_Witness ==
    /\ pipe_pc = "cancelled"
    /\ loc # NoLoc
    /\ Len(CACHE) = 1
    /\ ~InCache(CacheKey(payload))

(***************************************************************************)
(* Claims on the rule engine and the evidence spans                        *)
(***************************************************************************)
\* C23: no two spans returned by extract_evidence_spans share the same
\* (lower-cased text, kind) pair.
C23_SpansDeduplicated ==
    ("spans" \in ev_done /\ ~ev_spans.raised)
        => \A i, j \in 1..Len(ev_spans.spans) :
              (i < j) => <<lower(ev_spans.spans[i].text), ev_spans.spans[i].kind>>
                             # <<lower(ev_spans.spans[j].text), ev_spans.spans[j].kind>>

\* C24: for the empty string and for None extract_evidence_spans raises
\* nothing and returns no span.
C24_FalsyTextGivesNoSpans ==
    ("spans" \in ev_done /\ ev_text \in {<<>>, NoStr})
        => ~ev_spans.raised /\ ev_spans.spans = <<>>

\* a located span lies inside the text and covers its own text, case aside
SpanConsistent(span, text) ==
    (span.start >= 0 /\ span.end >= 0)
        => /\ span.start <= span.end
           /\ span.end <= Len(text)
           /\ SubSeq(lower(text), span.start + 1, span.end) = lower(span.text)

\* C25: every span of _locate_spans and of extract_evidence with start and
\* end >= 0 has start <= end and covers its own text in the lower-cased
\* text; a phrase that does not occur has start = end = -1; the spans of one
\* keyword do not overlap.
C25_SpanOffsetsConsistent ==
    /\ ("located" \in ev_done /\ ev_text # NoStr)
          => \A i \in 1..Len(ev_located) :
                /\ SpanConsistent(ev_located[i], ev_text)
                /\ \A j \in 1..Len(ev_located) :
                      (i # j /\ ev_located[i].text = ev_located[j].text)
                          => \/ ev_located[i].end <= ev_located[j].start
                             \/ ev_located[j].end <= ev_located[i].start
    /\ "evidence" \in ev_done
          => /\ Len(ev_evidence) = Len(ev_phrases)
             /\ \A i \in 1..Len(ev_evidence) :
                   /\ SpanConsistent(ev_evidence[i], ev_text)
                   /\ ev_evidence[i].text = ev_phrases[i]
                   /\ ~Contains(lower(ev_phrases[i]), lower(ev_text))
                         => ev_evidence[i].start = -1 /\ ev_evidence[i].end = -1
                   /\ Contains(lower(ev_phrases[i]), lower(ev_text))
                         => ev_evidence[i].start >= 0

\* "haha" was located twice in "Hahaha haha, ACT NOW" without overlap, and
\* of the strong phrases "Act Now" was located and "free" was not
C25_Witness ==
    /\ {"located", "evidence"} \subseteq ev_done
    /\ ev_text = <<"H", "a", "h", "a", "h", "a", " ", "h", "a", "h", "a", ",", " ", "A", "C", "T", " ", "N", "O", "W">>
    /\ Len(ev_located) = 3
    /\ ev_located[1].start = 0 /\ ev_located[2].start = 7
    /\ Len(ev_evidence) = 2
    /\ ev_evidence[1].start = 13 /\ ev_evidence[1].end = 20
    /\ ev_evidence[2].start = -1 /\ ev_evidence[2].end = -1

\* the lower-cased text the rules look at
RuleText == lower(IF ev_text = NoStr THEN <<>> ELSE ev_text)
Fires(rule_id) == \E i \in 1..Len(ev_rules) : ev_rules[i].rule_id = rule_id

\* C26: evaluate_rules returns exactly the triggers whose predicate holds on
\* the lower-cased text, each once, with its severity: H1 iff (cure or
\* remedy) and (guaranteed or 100%), F1 iff double your money or guaranteed
\* returns, B1 iff before and after, C1 iff one of the four urgency phrases;
\* nothing for empty or None text.
C26_RulesExactlyWhenPredicate ==
    "rules" \in ev_done
        => /\ \A i \in 1..Len(ev_rules) :
                 ev_rules[i] \in {RuleH1, RuleF1, RuleB1, RuleC1}
           /\ \A i, j \in 1..Len(ev_rules) : i # j => ev_rules[i].rule_id # ev_rules[j].rule_id
           /\ RuleH1.severity = "high" /\ RuleF1.severity = "high"
           /\ RuleB1.severity = "medium" /\ RuleC1.severity = "medium"
           /\ Fires("H1") <=> ((Contains(<<"c", "u", "r", "e">>, RuleText) \/ Contains(<<"r", "e", "m", "e", "d", "y">>, RuleText))
                                /\ (Contains(<<"g", "u", "a", "r", "a", "n", "t", "e", "e", "d">>, RuleText) \/ Contains(<<"1", "0", "0", "%">>, RuleText)))
           /\ Fires("F1") <=> (Contains(<<"d", "o", "u", "b", "l", "e", " ", "y", "o", "u", "r", " ", "m", "o", "n", "e", "y">>, RuleText)
                                \/ Contains(<<"g", "u", "a", "r", "a", "n", "t", "e", "e", "d", " ", "r", "e", "t", "u", "r", "n", "s">>, RuleText))
           /\ Fires("B1") <=> (Contains(<<"b", "e", "f", "o", "r", "e">>, RuleText) /\ Contains(<<"a", "f", "t", "e", "r">>, RuleText))
           /\ Fires("C1") <=> (Contains(<<"l", "i", "m", "i", "t", "e", "d", " ", "t", "i", "m", "e">>, RuleText) \/ Contains(<<"o", "n", "l", "y", " ", "t", "o", "d", "a", "y">>, RuleText)
                                \/ Contains(<<"a", "c", "t", " ", "n", "o", "w">>, RuleText) \/ Contains(<<"d", "o", "n", "'", "t", " ", "m", "i", "s", "s">>, RuleText))
           /\ ev_text \in {<<>>, NoStr} => ev_rules = <<>>

\* all four rules fired on one text
C26_Witness ==
    /\ "rules" \in ev_done
    /\ ev_rules = <<RuleH1, RuleF1, RuleB1, RuleC1>>

(***************************************************************************)
(* Claims on the scenarios of run_analysis_pipeline and on cache hits      *)
(***************************************************************************)
\* an evaluation that ran its analysis (not a cache hit), so that loc holds
\* the locals of the evaluation that returned
Evaluated == Returned /\ ~result.cache_hit

\* the catalog matched a brand of trust high and the only reputation flag is
\* "Not HTTPS"
TrustedBrandNotHttps ==
    /\ Evaluated
    /\ loc.known_brand.trust_baseline = "high"
    /\ loc.rep.flags = {"Not HTTPS"}

\* the points the domain step took off the score
DomainPenaltyApplied ==
    IF loc.domain_trust = "suspicious" THEN DomainPenalty(loc.known_brand.trust_baseline) ELSE 0

\* C27 as stated: catalog trust high and "Not HTTPS" as the only flag give
\* domain penalty 0, legitimacy >= 90 and, without advisory, SAFE.
C27_TrustedBrandScenario ==
    TrustedBrandNotHttps
        => /\ DomainPenaltyApplied = 0
           /\ loc.legitimacy_score >= 90
           /\ loc.health_advisories = {} => result.final_label = "SAFE"

\* C27 amended: the domain penalty is 0; legitimacy >= 90 and SAFE hold when
\* the text has at most two scam-keyword occurrences (no urgency penalty).
C27_TrustedBrandWithoutUrgency ==
    TrustedBrandNotHttps
        => /\ DomainPenaltyApplied = 0
           /\ loc.urgency_count <= 2
                 => /\ loc.legitimacy_score >= 90
                    /\ loc.health_advisories = {} => result.final_label = "SAFE"

\* Nike over plain http with exactly two scam keywords in the text: 90
C27_Witness ==
    /\ TrustedBrandNotHttps
    /\ loc.urgency_count = 2
    /\ loc.legitimacy_score = 90
    /\ loc.health_advisories = {}
    /\ result.final_label = "SAFE"

\* C28: a text with a scam keyword and no catalog match has legitimacy <= 30
\* whatever the domain trust, final label HIGH_RISK and risk_score >= 0.9;
\* with "guaranteed returns" in it a high-severity trigger (F1) fires.
C28_ScamTextScenario ==
    (Evaluated /\ loc.known_brand = NoBrand
        /\ ContainsAny(SCAM_KEYWORDS, lower(loc.combined_text)))
        => /\ loc.legitimacy_score <= 30
           /\ result.final_label = "HIGH_RISK"
           /\ result.risk_score >= 90
           /\ Contains(<<"g", "u", "a", "r", "a", "n", "t", "e", "e", "d", " ", "r", "e", "t", "u", "r", "n", "s">>, lower(loc.combined_text))
                 => \E i \in 1..Len(result.rule_triggers) :
                       result.rule_triggers[i] = RuleF1 /\ RuleF1.severity = "high"

\* the spec's text on a suspicious domain
C28_Witness ==
    /\ Evaluated
    /\ loc.combined_text = <<"W", "I", "N", " ", "C", "A", "S", "H", " ", "N", "O", "W", "!", " ", "1", "0", "0", "%", " ", "g", "u", "a", "r", "a", "n", "t", "e", "e", "d", " ", "r", "e", "t", "u", "r", "n", "s", ",", " ", "b", "u", "y", " ", "n", "o", "w", "!">>
    /\ loc.known_brand = NoBrand
    /\ loc.domain_trust = "suspicious"
    /\ loc.legitimacy_score = 0
    /\ result.final_label = "HIGH_RISK"
    /\ HasSeverity(result.rule_triggers, "high")

\* C29: with no OCR text, a failed vision call (or no image) and no catalog
\* match the reported confidence is the floor 0.15.
C29_NoEvidenceGivesFloor ==
    (Evaluated
        /\ loc.ocr_text = <<>>
        /\ (~(Truthy(payload.image_url) /\ env.image_ok) \/ env.vision_info \in {NoVision, VisionError})
        /\ loc.known_brand = NoBrand)
        => result.confidence = 15

\* C30: a step taken by a request whose fingerprint is cached returns the
\* stored verdict with cache_hit = true under the new request_id, leaves the
\* locals of the analysis, the history and the cache as they were, and the
\* stored entry still has cache_hit = false and its original request_id.
C30_CacheHitOnlyReads ==
    [][(pipe_pc = "start" /\ InCache(CacheKey(payload)))
           => /\ pipe_pc' = "done"
              /\ result' = [CacheGet(CacheKey(payload)) EXCEPT !.request_id = request_id,
                                                                !.cache_hit = TRUE]
              /\ result'.request_id # CacheGet(CacheKey(payload)).request_id
              /\ loc' = loc
              /\ history' = history
              /\ CACHE' = CACHE
              /\ ~CacheGet(CacheKey(payload)).cache_hit]_vars

\* the second request was served from the entry the first one stored
C30_Witness ==
    /\ Returned
    /\ result.cache_hit
    /\ result.request_id = 2
    /\ CacheGet(CacheKey(payload)).request_id = 1
    /\ ~CacheGet(CacheKey(payload)).cache_hit
    /\ history = <<1>>

(***************************************************************************)
(* Claim on the report handed to maybe_enhance_with_llm                    *)
(***************************************************************************)
\* C22: maybe_enhance_with_llm leaves the report it was given as it was,
\* nested blocks included, whether the opinion call succeeds or fails.
C22_GivenReportUnchanged == merge_report = merge_classic

(***************************************************************************)
(* Claim on two evaluations of one payload that overlap                    *)
(***************************************************************************)
\* both evaluations missed the cache and both have returned
BothMissed ==
    \A i \in Tasks : tasks[i].pc = "done" /\ ~tasks[i].result.cache_hit

\* C21: of two evaluations of the same payload that both miss the cache,
\* neither waits for the other (an evaluation whose opinion call returned
\* can finish), each returns its own result under its own request_id, and
\* once both returned the cache holds, under the one key, exactly the result
\* of the evaluation that wrote last.
C21_OverlapLastWriterWins ==
    /\ \A i \in Tasks : tasks[i].pc = "llm" => ENABLED TaskFinish(i)
    /\ \A i \in Tasks : tasks[i].pc \in {"start", "llm", "done"}
    /\ \A i \in Tasks :
        tasks[i].pc = "done" /\ ~tasks[i].result.cache_hit =>
            tasks[i].result = BuildResult(Analysis(payload, env), i, payload.use_llm)
    /\ BothMissed =>
        /\ Len(CACHE) = 1
        /\ Len(history) = 2
        /\ \A i \in Tasks :
            history[2] = tasks[i].request_id => CacheGet(CacheKey(payload)) = tasks[i].result

\* both evaluations were suspended at the opinion call together, the second
\* one wrote first, and the cache holds the first one's result
C21_Witness ==
    /\ BothMissed
    /\ history = <<2, 1>>
    /\ CacheGet(CacheKey(payload)).request_id = 1
    /\ tasks[2].result.request_id = 2

====
